---------------------------- MODULE Spec2Model ----------------------------
(***************************************************************************)
(* A model of the preview-sv editor extension (src/src/extension.ts): the  *)
(* shared preview panel, the debounce timers of the live preview, and the  *)
(* render pipeline renderToPanel -> runSv2Svg (primary run, fallback run,  *)
(* temporary files and their cleanup).                                     *)
(*                                                                         *)
(* Text is modelled as a sequence of one-character strings, so that the    *)
(* string functions of the source (indexOf, slice, trim, join, replace)    *)
(* are computed as the code computes them.                                 *)
(***************************************************************************)
EXTENDS Integers, Sequences, FiniteSets, TLC

\* ------------------------------------------------------------------ bounds

\* The number of renderToPanel calls one behaviour makes.
MaxRenders == 2
\* The number of webview panels one behaviour creates.
MaxPanels == 2
\* The largest value Date.now() returns (the clock starts at 0).
MaxClock == 1
\* The number of settings messages of the webview that are handled.
MaxHandlers == 2
\* The number of zooms and pans the page of a document makes.
MaxMoves == 2

\* ------------------------------------------------- JavaScript string helpers
\* A text is a TLA+ string; TLC computes Len, \o and SubSeq on strings.

\* s.charAt(i - 1): the i-th character of s (1-based).
CharAt(s, i) == SubSeq(s, i, i)

\* parts.join(sep)
RECURSIVE Join(_, _)
Join(parts, sep) ==
    IF parts = <<>> THEN ""
    ELSE IF Len(parts) = 1 THEN parts[1]
    ELSE parts[1] \o sep \o Join(Tail(parts), sep)

\* Whether pat occurs in s at the 0-based index i.
MatchAt(s, pat, i) ==
    /\ i >= 0
    /\ i + Len(pat) <= Len(s)
    /\ SubSeq(s, i + 1, i + Len(pat)) = pat

\* String.prototype.indexOf: the first 0-based index of pat in s, or -1.
IndexOf(s, pat) ==
    LET hits == {i \in 0..Len(s) : MatchAt(s, pat, i)}
    IN  IF hits = {} THEN -1
        ELSE CHOOSE i \in hits : \A j \in hits : i <= j

\* String.prototype.lastIndexOf: the last 0-based index of pat in s, or -1.
LastIndexOf(s, pat) ==
    LET hits == {i \in 0..Len(s) : MatchAt(s, pat, i)}
    IN  IF hits = {} THEN -1
        ELSE CHOOSE i \in hits : \A j \in hits : i >= j

\* String.prototype.includes
Includes(s, pat) == IndexOf(s, pat) # -1

\* String.prototype.slice(a, b) for 0 <= a, 0 <= b: the characters a..b-1.
Slice(s, a, b) ==
    LET e == IF b > Len(s) THEN Len(s) ELSE b
    IN  IF a >= e THEN "" ELSE SubSeq(s, a + 1, e)

\* The characters \s matches (the ones the model's texts use).
WhiteSpace == {" ", "\n", "\t"}

\* String.prototype.trim
Trim(s) ==
    LET keep == {i \in 1..Len(s) : CharAt(s, i) \notin WhiteSpace}
    IN  IF keep = {} THEN ""
        ELSE SubSeq(s, CHOOSE i \in keep : \A j \in keep : i <= j,
                       CHOOSE i \in keep : \A j \in keep : i >= j)

\* String(n) for a natural number n: its decimal digits.
RECURSIVE Digits(_)
Digits(n) ==
    LET d == <<"0", "1", "2", "3", "4", "5", "6", "7", "8", "9">>
    IN  IF n < 10 THEN d[n + 1] ELSE Digits(n \div 10) \o d[(n % 10) + 1]

\* s.replace(/[set]/g, f): every character of s in the domain of map replaced
\* (computed by halves, which keeps the evaluation shallow).
RECURSIVE ReplaceChars(_, _)
ReplaceChars(s, map) ==
    IF Len(s) = 0 THEN ""
    ELSE IF Len(s) = 1 THEN (IF s \in DOMAIN map THEN map[s] ELSE s)
    ELSE LET h == Len(s) \div 2
         IN  ReplaceChars(SubSeq(s, 1, h), map)
                 \o ReplaceChars(SubSeq(s, h + 1, Len(s)), map)

\* ------------------------------------------------------- pure functions

\* An optional value (string | null): <<>> is null, <<v>> is the value v.
Null == <<>>
Some(v) == <<v>>
\* !v for a string | null: null and the empty string are falsy.
Falsy(opt) == opt = Null \/ opt[1] = ""

getDefaultSv2SvgOptions ==
    [inputOrder |-> "alpha", gridX |-> 0, gridY |-> 0, noSymmetry |-> FALSE,
     style |-> "classic", orientation |-> "horizontal", table |-> FALSE,
     noCaption |-> FALSE, fillGates |-> FALSE, signalStyles |-> FALSE,
     fanoutWires |-> FALSE]

\* Derived flags that name the style whatever it is.
DerivedArgsWithStyle(options) == <<"--style", options.style>>

\* The sv2svgArgs of buildArgs: the flags derived from the render options.
DerivedArgs(options) ==
       (IF options.inputOrder # "alpha"
          THEN <<"--input-order", options.inputOrder>> ELSE <<>>)
    \o (IF options.gridX > 0 THEN <<"--grid-x", Digits(options.gridX)>> ELSE <<>>)
    \o (IF options.gridY > 0 THEN <<"--grid-y", Digits(options.gridY)>> ELSE <<>>)
    \o (IF options.noSymmetry THEN <<"--no-symmetry">> ELSE <<>>)
    \o (IF options.table THEN <<"--table">> ELSE <<>>)
    \o (IF options.noCaption THEN <<"--no-caption">> ELSE <<>>)
    \o (IF options.fillGates THEN <<"--fill-gates">> ELSE <<>>)
    \o (IF options.signalStyles THEN <<"--signal-styles">> ELSE <<>>)
    \o (IF options.fanoutWires THEN <<"--fanout-wires">> ELSE <<>>)
    \o (IF options.style # "classic" THEN <<"--style", options.style>> ELSE <<>>)
    \o (IF options.orientation # "horizontal"
          THEN <<"--orientation", options.orientation>> ELSE <<>>)

\* A buildArgs that put the path last whatever argsBeforeFile is.
buildArgsPathLast(cfg, filePath, extra, options) ==
    <<cfg.command>> \o DerivedArgs(options) \o extra \o <<filePath>>

buildArgs(cfg, filePath, extra, options) ==
       <<cfg.command>>
    \o (IF cfg.argsBeforeFile THEN DerivedArgs(options) \o extra ELSE <<>>)
    \o <<filePath>>
    \o (IF ~cfg.argsBeforeFile THEN DerivedArgs(options) \o extra ELSE <<>>)

\* The 1-based positions i of args that hold '-o' or '--output' followed by '-'.
StdoutMarkers(args) ==
    {i \in 1..Len(args) :
        /\ args[i] \in {"-o", "--output"}
        /\ i + 1 <= Len(args)
        /\ args[i + 1] = "-"}

\* A rewriteOutputPath that appends the output option whatever args holds.
rewriteOutputPathAppend(args, newPath) == args \o <<"-o", newPath>>

rewriteOutputPath(args, newPath) ==
    LET hits == StdoutMarkers(args)
    IN  IF hits # {}
          THEN LET i == CHOOSE k \in hits : \A j \in hits : k <= j
               IN  [args EXCEPT ![i + 1] = newPath]
          ELSE args \o <<"-o", newPath>>

extractSvg(s) ==
    LET start  == IndexOf(s, "<svg")
        endIdx == LastIndexOf(s, "</svg>")
        body   == IF endIdx # -1 THEN Slice(s, start, endIdx + 6)
                                 ELSE Slice(s, start, Len(s))
    IN  IF start = -1 THEN Null ELSE Some(Trim(body))

\* The test of shellEscape: whether p holds white space, a double quote, a single
\* quote, a backquote or a dollar sign (no text of the model holds a backquote,
\* which a TLA+ string cannot hold).
NeedsQuoting(p) ==
    \E i \in 1..Len(p) : CharAt(p, i) \in WhiteSpace \cup {"\"", "'", "$"}

shellEscape(parts) ==
    Join([i \in 1..Len(parts) |->
            IF NeedsQuoting(parts[i])
              THEN "'" \o ReplaceChars(parts[i], [c \in {"'"} |-> "'\"'\"'"]) \o "'"
              ELSE parts[i]],
         " ")

\* The page documents.  The fixed markup around the embedded values is left
\* out: a document is its kind and the values the template embeds.
loadingHtml == [kind |-> "loading"]

errorHtml(msg) ==
    [kind |-> "error",
     pre  |-> ReplaceChars(msg, [c \in {"&", "<", ">"} |->
                 CASE c = "&" -> "&amp;" [] c = "<" -> "&lt;" [] c = ">" -> "&gt;"])]

\* wrapSvg reads the module's current options when it is called.
wrapSvg(svg, options) ==
    [kind |-> "svg", svg |-> svg, optionsJson |-> options]

\* path.basename(p)
Basename(p) == Slice(p, LastIndexOf(p, "/") + 1, Len(p))

\* path.join(os.tmpdir(), `sv2svg-preview-${Date.now()}-${basename}`)
ScratchPath(ts, fsPath) ==
    "/tmp/sv2svg-preview-" \o Digits(ts) \o "-" \o Basename(fsPath)

\* path.join(os.tmpdir(), `sv2svg-out-${Date.now()}-${basename}.svg`)
OutPath(ts, fsPath) ==
    "/tmp/sv2svg-out-" \o Digits(ts) \o "-" \o Basename(fsPath) \o ".svg"

\* new RegExp(pattern).test(name), for the patterns the model configures:
\* the default '.*_tb\.sv$' matches exactly the names ending in "_tb.sv",
\* and '^a\.sv$' matches exactly the name "a.sv".
RegExpTest(pattern, name) ==
    \/ /\ pattern = ".*_tb\\.sv$"
       /\ Len(name) >= 6
       /\ SubSeq(name, Len(name) - 5, Len(name)) = "_tb.sv"
    \/ /\ pattern = "^a\\.sv$"
       /\ name = "a.sv"

isExcluded(cfg, fsPath) == RegExpTest(cfg.excludePattern, Basename(fsPath))

\* The message of the error execFile rejects with (node:child_process):
\* 'Command failed: <file args joined by blanks>\n<stderr>' for a non-zero exit
\* and for a kill on timeout, '<stream> maxBuffer length exceeded' for overflow.
ExecErrorMessage(exit, file, args, stderr) ==
    IF exit = "maxbuffer" THEN "stdout maxBuffer length exceeded"
    ELSE "Command failed: " \o Join(<<file>> \o args, " ") \o "\n" \o stderr

\* ------------------------------------------------------------ the inputs

\* The documents of the workspace (uri.fsPath): one is a testbench, which the
\* default exclusion pattern matches; one has a blank in its name.
Docs == {"/w/a.sv", "/w/b c.sv", "/w/c_tb.sv"}

\* The quiet period of the live preview, in milliseconds.
DebounceMs == 500
\* Time passes in steps of half a quiet period.
TickMs == DebounceMs \div 2

\* getCfg() and the saved render options: the workspace configurations the
\* model runs under.
CfgSet ==
    {[runner |-> "uvx", command |-> "sv2svg", runnerArgs |-> <<>>,
      args |-> <<"-o", "-">>, onSave |-> "refresh", onChange |-> TRUE,
      argsBeforeFile |-> FALSE, excludePattern |-> ".*_tb\\.sv$",
      renderOptions |-> getDefaultSv2SvgOptions],
     [runner |-> "uvx", command |-> "sv2svg", runnerArgs |-> <<"--quiet">>,
      args |-> <<>>, onSave |-> "off", onChange |-> FALSE,
      argsBeforeFile |-> TRUE, excludePattern |-> ".*_tb\\.sv$",
      renderOptions |-> [getDefaultSv2SvgOptions EXCEPT
                            !.style = "dark", !.gridX = 12, !.table = TRUE]]}

\* getCfg(): the settings of the section sv2svgPreview that the code reads.
getCfg(c) == [f \in DOMAIN c \ {"renderOptions"} |-> c[f]]

\* loadSv2SvgOptions(): the render options saved in the workspace configuration.
loadSv2SvgOptions(c) == c.renderOptions

\* What a run of the external tool may do in the primary (stdout) attempt.
PrimaryOutcomes ==
    {[exit |-> "zero",      stdout |-> "<svg>p</svg>\nlog", stderr |-> ""],
     [exit |-> "zero",      stdout |-> "log",               stderr |-> ""],
     [exit |-> "nonzero",   stdout |-> "<svg>p</svg>",      stderr |-> "warn"],
     [exit |-> "timeout",   stdout |-> "",                  stderr |-> ""],
     [exit |-> "maxbuffer", stdout |-> "<svg>p",            stderr |-> ""]}

\* The tool behaviours of the specification in which renders overlap.
SomePrimaryOutcomes ==
    {o \in PrimaryOutcomes : o.exit = "zero"}

\* What a run of the external tool may do in the fallback (output file)
\* attempt: file is the content it writes to the output path, or Null.
FallbackOutcomes ==
    {[exit |-> "zero",    file |-> Some("<svg>f</svg>"), stdout |-> "<svg>q</svg>",
      stderr |-> ""],
     [exit |-> "zero",    file |-> Null, stdout |-> "log <svg>q</svg> end",
      stderr |-> ""],
     [exit |-> "zero",    file |-> Null, stdout |-> "log",
      stderr |-> "tool: invalid option"],
     [exit |-> "zero",    file |-> Null, stdout |-> "", stderr |-> ""],
     [exit |-> "zero",    file |-> Some(""), stdout |-> "", stderr |-> ""],
     [exit |-> "nonzero", file |-> Some("<svg>f</svg>"), stdout |-> "",
      stderr |-> "warn"],
     [exit |-> "nonzero", file |-> Null, stdout |-> "<svg>q</svg>",
      stderr |-> "warn"],
     [exit |-> "nonzero", file |-> Null, stdout |-> "", stderr |-> ""],
     [exit |-> "timeout", file |-> Null, stdout |-> "", stderr |-> ""],
     [exit |-> "maxbuffer", file |-> Null, stdout |-> "<svg>q", stderr |-> ""]}

SomeFallbackOutcomes ==
    {o \in FallbackOutcomes : o.exit = "zero" /\ o.stdout # ""}

\* ---------------------------------------------------------------- the state

VARIABLES
    sharedPanel,            \* the id of the shared panel, 0 when undefined
    currentUri,             \* the previewed document, "" when undefined
    changeTimers,           \* the Map changeTimers: document -> timeout id (0: no entry)
    currentSv2SvgOptions,   \* the render options in memory
    cfg,                    \* the workspace configuration getCfg() reads
    isTrusted,              \* vscode.workspace.isTrusted
    panels,                 \* the webview panels created so far
    renders,                \* the renderToPanel calls: their locals and position
    timeouts,               \* the armed setTimeout timers of the runtime
    sinceEdit,              \* per document, the ms since the edit that armed its timer
    fs,                     \* the temporary directory: a set of [path, data]
    unlinks,                \* the unlink operations started and not yet run
    clock,                  \* the last value Date.now() returned
    lastCompleted,          \* per panel, its render that finished last (0: none has)
    handlers,               \* the onDidReceiveMessage handler calls and their position
    call,                   \* a call of a pure function: its arguments and its value
    view                    \* the page script of a displayed document: its state

vars == <<sharedPanel, currentUri, changeTimers, currentSv2SvgOptions, cfg,
          isTrusted, panels, renders, timeouts, sinceEdit, fs, unlinks, clock,
          lastCompleted, handlers, call, view>>

RenderIds == 1..MaxRenders
PanelIds == 1..MaxPanels

\* A renderToPanel call that has not been made yet.
IdleRender ==
    [pc |-> "idle", uri |-> "", panel |-> 0, useTemp |-> FALSE, cfg |-> <<>>,
     tmpPath |-> "", fullArgs |-> <<>>, options |-> <<>>, msg |-> "",
     outTmp |-> "", argsWithFile |-> <<>>, primary |-> <<>>, fallback |-> <<>>,
     exists |-> FALSE, spawned |-> 0, result |-> <<>>]

NoPanel == [state |-> "none", html |-> <<>>, title |-> ""]

\* A message handler call that has not been made yet: settings is the record
\* it persists, pos the number of fields it has written, render the
\* renderToPanel call it made (0: none).
HandlerIds == 1..MaxHandlers
IdleHandler == [pc |-> "idle", settings |-> <<>>, pos |-> 0, render |-> 0]

\* No pure function is being called.
NoCall == [fn |-> "none"]

\* No displayed document has run its page script.
NoView == [loaded |-> FALSE]

Init ==
    /\ sharedPanel = 0
    /\ currentUri = ""
    /\ changeTimers = [d \in Docs |-> 0]
    /\ cfg \in CfgSet
    /\ currentSv2SvgOptions = loadSv2SvgOptions(cfg)
    /\ isTrusted \in BOOLEAN
    /\ panels = [p \in PanelIds |-> NoPanel]
    /\ renders = [r \in RenderIds |-> IdleRender]
    /\ timeouts = {}
    /\ sinceEdit = [d \in Docs |-> -1]
    /\ fs = {}
    /\ unlinks = {}
    /\ clock = 0
    /\ lastCompleted = [p \in PanelIds |-> 0]
    /\ handlers = [h \in HandlerIds |-> IdleHandler]
    /\ call = NoCall
    /\ view = NoView

\* ------------------------------------------------------- the file system

FileExistsAt(files, p) == \E f \in files : f.path = p
ContentAt(files, p) == (CHOOSE f \in files : f.path = p).data
WriteFile(files, p, d) == {f \in files : f.path # p} \cup {[path |-> p, data |-> d]}
RemoveFiles(files, ps) == {f \in files : f.path \notin ps}

\* fileExists(p): fs.promises.access resolves (true) or rejects (false).
fileExists(files, p) == FileExistsAt(files, p)

\* The values a call of Date.now() may return: the clock never runs backwards.
NowValues == {t \in {clock, clock + 1} : t <= MaxClock}

\* ------------------------------------------------------------ renderToPanel

Ok(v) == [ok |-> TRUE, value |-> v]
Err(m) == [ok |-> FALSE, value |-> m]

\* The ids of the renderToPanel calls not made yet, and the next one.
IdleRenders == {r \in RenderIds : renders[r].pc = "idle"}
NextRender == CHOOSE r \in IdleRenders : \A q \in IdleRenders : r <= q

\* The panel object is usable: accessing panel.webview throws a TypeError for
\* an undefined panel and 'Webview is disposed' for a disposed one.
PanelUsable(pnls, p) == p # 0 /\ pnls[p].state = "open"

\* Lines 308-312: read the options, build the argument vector, start the
\* primary process on targetPath.
SpawnPrimary(rec, targetPath) ==
    LET options == currentSv2SvgOptions
        args == buildArgs(rec.cfg, targetPath, rec.cfg.args, options)
    IN  [rec EXCEPT !.options = options,
                    !.fullArgs = rec.cfg.runnerArgs \o args,
                    !.pc = "primary",
                    !.spawned = 1]

\* Line 248 and the synchronous start of runSv2Svg, up to its first await.
\* pnls is the panel table as the calling handler leaves it.
renderToPanel(uri, panel, useTemp, pnls) ==
    LET r == NextRender
        rec == [IdleRender EXCEPT !.uri = uri, !.panel = panel,
                                  !.useTemp = useTemp, !.cfg = getCfg(cfg)]
    IN  IF ~PanelUsable(pnls, panel)
          THEN \* line 248 throws outside the try: the call rejects
               /\ renders' = [renders EXCEPT ![r] =
                     [rec EXCEPT !.pc = "rejected",
                                 !.result = Err("TypeError: panel.webview")]]
               /\ panels' = pnls
          ELSE /\ panels' = [pnls EXCEPT ![panel].html = loadingHtml]
               /\ renders' = [renders EXCEPT ![r] =
                     IF useTemp THEN [rec EXCEPT !.pc = "openDoc"]
                                ELSE SpawnPrimary(rec, uri)]

\* A renderToPanel that left the loading page in place when runSv2Svg fails.
DisplayOfSuccessOnly(res) ==
    IF res.ok THEN wrapSvg(res.value, currentSv2SvgOptions) ELSE loadingHtml

\* The document a settled runSv2Svg makes renderToPanel show (lines 251-254).
DisplayOf(res) ==
    IF res.ok THEN wrapSvg(res.value, currentSv2SvgOptions)
              ELSE errorHtml(res.value)

\* A renderToPanel that dropped the result of a render when a render
\* requested after it for the same panel has completed already.
SettleUnlessStale(r, rec, res) ==
    LET usable == PanelUsable(panels, rec.panel)
        stale == \E q \in RenderIds : /\ q > r
                                      /\ renders[q].pc = "done"
                                      /\ renders[q].panel = rec.panel
    IN  /\ renders' = [renders EXCEPT ![r] =
              [IdleRender EXCEPT !.pc = IF usable THEN "done" ELSE "rejected",
                                 !.uri = rec.uri, !.panel = rec.panel,
                                 !.useTemp = rec.useTemp,
                                 !.options = rec.options,
                                 !.primary = rec.primary,
                                 !.fallback = rec.fallback,
                                 !.spawned = rec.spawned, !.result = res]]
        /\ panels' = IF usable /\ ~stale
                       THEN [panels EXCEPT ![rec.panel].html = DisplayOf(res)]
                       ELSE panels
        /\ lastCompleted' = [lastCompleted EXCEPT ![rec.panel] = r]

\* runSv2Svg settles with res and renderToPanel continues after its await:
\* it assigns the panel's html, which throws when the panel is disposed (and
\* throws again in the catch block, so the call rejects).  The locals of the
\* finished call are gone; its record keeps what the call was, the options its
\* argument vector was built from, what the tool
\* did in its runs (primary, fallback: <<>> for a run that was not made), the
\* number of processes it started and its outcome.
Settle(r, rec, res) ==
    LET usable == PanelUsable(panels, rec.panel)
    IN  /\ renders' = [renders EXCEPT ![r] =
              [IdleRender EXCEPT !.pc = IF usable THEN "done" ELSE "rejected",
                                 !.uri = rec.uri, !.panel = rec.panel,
                                 !.useTemp = rec.useTemp,
                                 !.options = rec.options,
                                 !.primary = rec.primary,
                                 !.fallback = rec.fallback,
                                 !.spawned = rec.spawned, !.result = res]]
        /\ panels' = IF usable
                       THEN [panels EXCEPT ![rec.panel].html = DisplayOf(res)]
                       ELSE panels
        /\ lastCompleted' = [lastCompleted EXCEPT ![rec.panel] = r]

\* Finally blocks that started no deletion.
StartUnlinksNever(r, paths, files) ==
    /\ fs' = files
    /\ unlinks' = unlinks

\* fs.promises.unlink(p).catch(() => {}) for each p of paths, not awaited: the
\* removal runs on the thread pool, before or after the caller goes on.
\* files is the directory as the calling step leaves it.
StartUnlinks(r, paths, files) ==
    \E fast \in SUBSET paths :
        /\ fs' = RemoveFiles(files, fast)
        /\ unlinks' = unlinks \cup {[path |-> p, by |-> r] : p \in paths \ fast}

\* The finally block of lines 336-340.
ScratchOf(rec) == IF rec.tmpPath # "" THEN {rec.tmpPath} ELSE {}

\* --------------------------------------------------------------- runSv2Svg

\* A primary attempt that took the SVG of stdout whatever the exit code was.
PrimaryResultAnyExit(rec, o) ==
    LET svg == extractSvg(o.stdout)
    IN  IF Falsy(svg) THEN Err("No SVG found in stdout") ELSE Ok(svg[1])

\* Lines 311-316: what the primary attempt yields for the tool's behaviour o.
\* pExecFile rejects unless the process exits with code 0 within its limits.
PrimaryResult(rec, o) ==
    IF o.exit # "zero"
      THEN Err(ExecErrorMessage(o.exit, rec.cfg.runner, rec.fullArgs, o.stderr))
      ELSE LET svg == extractSvg(o.stdout)
           IN  IF Falsy(svg) THEN Err("No SVG found in stdout") ELSE Ok(svg[1])

\* Lines 328-332: no output file; the fallback's stdout, or the final error.
StdoutOrError(rec) ==
    LET svg2 == extractSvg(rec.fallback.stdout)
        msg == IF rec.msg # "" THEN rec.msg ELSE "Unknown error"
        cmd == rec.cfg.runner \o " " \o shellEscape(rec.argsWithFile)
    IN  IF ~Falsy(svg2) THEN Ok(svg2[1])
        ELSE Err((IF rec.fallback.stderr # "" THEN rec.fallback.stderr ELSE msg)
                   \o "\n\nCommand: " \o cmd)

\* Line 301: vscode.workspace.openTextDocument(uri) settles.
OpenDocDone(r) ==
    /\ renders[r].pc = "openDoc"
    /\ \/ \E ts \in NowValues :
            /\ clock' = ts
            /\ renders' = [renders EXCEPT ![r].pc = "writeFile",
                                          ![r].tmpPath = ScratchPath(ts, renders[r].uri)]
            /\ UNCHANGED <<panels, lastCompleted, view>>
       \/ /\ Settle(r, renders[r], Err("cannot open document"))
          /\ UNCHANGED clock
    /\ UNCHANGED <<handlers, call, sharedPanel, currentUri, changeTimers, currentSv2SvgOptions,
                   cfg, isTrusted, timeouts, sinceEdit, fs, unlinks, view>>

\* Line 303: fs.promises.writeFile(tmpPath, text) settles: the file is written,
\* or the write fails before or after the file was created.
WriteFileDone(r) ==
    /\ renders[r].pc = "writeFile"
    /\ \/ /\ fs' = WriteFile(fs, renders[r].tmpPath, "module")
          /\ renders' = [renders EXCEPT ![r] =
                            SpawnPrimary(renders[r], renders[r].tmpPath)]
          /\ UNCHANGED <<panels, lastCompleted, view>>
       \/ /\ fs' = fs
          /\ Settle(r, renders[r], Err("EACCES: open"))
       \/ /\ fs' = WriteFile(fs, renders[r].tmpPath, "")
          /\ Settle(r, renders[r], Err("ENOSPC: write"))
    /\ UNCHANGED <<handlers, call, sharedPanel, currentUri, changeTimers, currentSv2SvgOptions,
                   cfg, isTrusted, timeouts, sinceEdit, unlinks, clock, view>>

\* Lines 312-320: the primary process ends.
PrimaryDone(r, outcomes) ==
    /\ renders[r].pc = "primary"
    /\ \E o \in outcomes :
         LET rec == [renders[r] EXCEPT !.primary = o]
             res == PrimaryResult(rec, o)
         IN  IF res.ok
               THEN /\ Settle(r, rec, res)
                    /\ StartUnlinks(r, ScratchOf(rec), fs)
                    /\ UNCHANGED clock
               ELSE \E ts \in NowValues :
                      LET outTmp == OutPath(ts, rec.uri)
                      IN  /\ clock' = ts
                          /\ renders' = [renders EXCEPT ![r] =
                               [rec EXCEPT !.msg = res.value,
                                           !.outTmp = outTmp,
                                           !.argsWithFile =
                                               rewriteOutputPath(rec.fullArgs, outTmp),
                                           !.pc = "fallback",
                                           !.spawned = 2]]
                          /\ UNCHANGED <<panels, lastCompleted, fs, unlinks, view>>
    /\ UNCHANGED <<handlers, call, sharedPanel, currentUri, changeTimers, currentSv2SvgOptions,
                   cfg, isTrusted, timeouts, sinceEdit, view>>

\* Lines 321-323 and the finally blocks: the fallback process ends.
FallbackDone(r, outcomes) ==
    /\ renders[r].pc = "fallback"
    /\ \E o \in outcomes :
         LET rec == [renders[r] EXCEPT !.fallback = o]
             files == IF o.file # Null
                        THEN WriteFile(fs, rec.outTmp, o.file[1]) ELSE fs
         IN  IF o.exit # "zero"
               THEN /\ Settle(r, rec, Err(ExecErrorMessage(o.exit, rec.cfg.runner,
                                                           rec.argsWithFile, o.stderr)))
                    /\ StartUnlinks(r, {rec.outTmp} \cup ScratchOf(rec), files)
               ELSE /\ renders' = [renders EXCEPT ![r] =
                                      [rec EXCEPT !.pc = "fileExists"]]
                    /\ fs' = files
                    /\ UNCHANGED <<panels, lastCompleted, unlinks, view>>
    /\ UNCHANGED <<handlers, call, sharedPanel, currentUri, changeTimers, currentSv2SvgOptions,
                   cfg, isTrusted, timeouts, sinceEdit, clock, view>>

\* A fileExists after which the fallback run is made again.
FileExistsRetry(r) ==
    /\ renders[r].pc = "fileExists"
    /\ renders' = [renders EXCEPT ![r].pc = "fallback"]
    /\ UNCHANGED <<handlers, call, sharedPanel, currentUri, changeTimers, currentSv2SvgOptions,
                   cfg, isTrusted, timeouts, sinceEdit, clock, panels, lastCompleted,
                   fs, unlinks, view>>

\* Lines 323-332: fileExists(outTmp) settles.
FileExistsDone(r) ==
    /\ renders[r].pc = "fileExists"
    /\ LET rec == [renders[r] EXCEPT !.exists = fileExists(fs, renders[r].outTmp)]
       IN  IF rec.exists
             THEN /\ renders' = [renders EXCEPT ![r] = [rec EXCEPT !.pc = "readFile"]]
                  /\ UNCHANGED <<panels, lastCompleted, fs, unlinks, view>>
             ELSE /\ Settle(r, rec, StdoutOrError(rec))
                  /\ StartUnlinks(r, {rec.outTmp} \cup ScratchOf(rec), fs)
    /\ UNCHANGED <<handlers, call, sharedPanel, currentUri, changeTimers, currentSv2SvgOptions,
                   cfg, isTrusted, timeouts, sinceEdit, clock, view>>

\* Lines 325-326: fs.promises.readFile(outTmp) settles.
ReadFileDone(r) ==
    /\ renders[r].pc = "readFile"
    /\ LET rec == renders[r]
           res == IF FileExistsAt(fs, rec.outTmp)
                    THEN Ok(ContentAt(fs, rec.outTmp))
                    ELSE Err("ENOENT: no such file")
       IN  /\ Settle(r, rec, res)
           /\ StartUnlinks(r, {rec.outTmp} \cup ScratchOf(rec), fs)
    /\ UNCHANGED <<handlers, call, sharedPanel, currentUri, changeTimers, currentSv2SvgOptions,
                   cfg, isTrusted, timeouts, sinceEdit, clock, view>>

\* A started unlink runs: it removes the file, or fails (no such file) and the
\* failure is swallowed by its catch handler.
UnlinkDone(u) ==
    /\ u \in unlinks
    /\ unlinks' = unlinks \ {u}
    /\ fs' = RemoveFiles(fs, {u.path})
    /\ UNCHANGED <<handlers, call, sharedPanel, currentUri, changeTimers, currentSv2SvgOptions,
                   cfg, isTrusted, panels, renders, timeouts, sinceEdit, clock,
                   lastCompleted, view>>

\* ------------------------------------------------------------ the handlers

\* makeTitle(uri): 'Preview ' and the file name without its extension.
makeTitle(fsPath) ==
    LET base == Basename(fsPath)
        dot == LastIndexOf(base, ".")
    IN  "Preview " \o (IF dot > 0 THEN Slice(base, 0, dot) ELSE base)

FreePanels == {p \in PanelIds : panels[p].state = "none"}

\* The commands sv2svgPreview.open / openToSide with a target, and
\* openPreview (lines 168-229), up to the first await of its render.
Open(uri) ==
    /\ uri \in Docs
    /\ IF ~isTrusted \/ isExcluded(cfg, uri)
         THEN \* a warning or information message; nothing else happens
              UNCHANGED <<sharedPanel, currentUri, panels, renders, view>>
         ELSE /\ IdleRenders # {}
              /\ sharedPanel = 0 => FreePanels # {}
              /\ LET p == IF sharedPanel # 0 THEN sharedPanel
                          ELSE CHOOSE q \in FreePanels : \A k \in FreePanels : q <= k
                     created == IF sharedPanel # 0 THEN panels
                                ELSE [panels EXCEPT ![p] =
                                        [state |-> "open", html |-> <<>>, title |-> ""]]
                     titled == [created EXCEPT ![p].title = makeTitle(uri)]
                 IN  /\ currentUri' = uri
                     /\ sharedPanel' = p
                     /\ renderToPanel(uri, p, FALSE, titled)
    /\ UNCHANGED <<handlers, call, changeTimers, currentSv2SvgOptions, cfg, isTrusted, timeouts,
                   sinceEdit, fs, unlinks, clock, lastCompleted, view>>

\* The command sv2svgPreview.refresh (lines 112-118).
Refresh ==
    /\ IF sharedPanel = 0 \/ currentUri = ""
         THEN UNCHANGED <<panels, renders, view>>
         ELSE /\ IdleRenders # {}
              /\ renderToPanel(currentUri, sharedPanel, FALSE, panels)
    /\ UNCHANGED <<handlers, call, sharedPanel, currentUri, changeTimers, currentSv2SvgOptions,
                   cfg, isTrusted, timeouts, sinceEdit, fs, unlinks, clock,
                   lastCompleted, view>>

\* onDidSaveTextDocument (lines 130-136).
Save(doc) ==
    /\ doc \in Docs
    /\ IF cfg.onSave = "refresh" /\ sharedPanel # 0 /\ currentUri # ""
          /\ doc = currentUri
         THEN /\ IdleRenders # {}
              /\ renderToPanel(doc, sharedPanel, FALSE, panels)
         ELSE UNCHANGED <<panels, renders, view>>
    /\ UNCHANGED <<handlers, call, sharedPanel, currentUri, changeTimers, currentSv2SvgOptions,
                   cfg, isTrusted, timeouts, sinceEdit, fs, unlinks, clock,
                   lastCompleted, view>>

\* A handler that did not clear the pending timer of the document.
ClearPendingNever(doc) == timeouts

\* Line 144: if (changeTimers.has(key)) clearTimeout(changeTimers.get(key)!)
ClearPending(doc) == {t \in timeouts : t.id # changeTimers[doc]}

\* setTimeout returns a new timer object: one that is not armed and that no
\* other entry of the map refers to.
FreshTimer(doc) ==
    LET used == {changeTimers[d] : d \in Docs \ {doc}}
                    \cup {t.id : t \in ClearPending(doc)}
        free == (1..(Cardinality(Docs) + Cardinality(timeouts) + 1)) \ used
    IN  CHOOSE i \in free : \A j \in free : i <= j

\* onDidChangeTextDocument (lines 138-148).
Edit(doc) ==
    /\ doc \in Docs
    /\ IF cfg.onChange /\ sharedPanel # 0 /\ currentUri # "" /\ doc = currentUri
         THEN LET id == FreshTimer(doc)
              IN  /\ timeouts' = ClearPending(doc)
                        \cup {[id |-> id, doc |-> doc, remaining |-> DebounceMs]}
                  /\ changeTimers' = [changeTimers EXCEPT ![doc] = id]
                  /\ sinceEdit' = [sinceEdit EXCEPT ![doc] = 0]
         ELSE UNCHANGED <<timeouts, changeTimers, sinceEdit, view>>
    /\ UNCHANGED <<handlers, call, sharedPanel, currentUri, currentSv2SvgOptions, cfg, isTrusted,
                   panels, renders, fs, unlinks, clock, lastCompleted, view>>

\* A timer expires and its callback runs (lines 145-147): it renders the
\* document of the edit into whatever sharedPanel is now.
TimerFire(t) ==
    /\ t \in timeouts
    /\ t.remaining = 0
    /\ IdleRenders # {}
    /\ timeouts' = timeouts \ {t}
    /\ sinceEdit' = [sinceEdit EXCEPT ![t.doc] = -1]
    /\ renderToPanel(t.doc, sharedPanel, TRUE, panels)
    /\ UNCHANGED <<handlers, call, sharedPanel, currentUri, changeTimers, currentSv2SvgOptions,
                   cfg, isTrusted, fs, unlinks, clock, lastCompleted, view>>

\* TickMs of time pass; a timer that is due runs before more time passes.
Elapse ==
    /\ timeouts # {}
    /\ \A t \in timeouts : t.remaining >= TickMs
    /\ timeouts' = {[t EXCEPT !.remaining = t.remaining - TickMs] : t \in timeouts}
    /\ sinceEdit' = [d \in Docs |->
                       IF sinceEdit[d] < 0 THEN sinceEdit[d]
                       ELSE IF sinceEdit[d] + TickMs > DebounceMs THEN DebounceMs
                       ELSE sinceEdit[d] + TickMs]
    /\ UNCHANGED <<handlers, call, sharedPanel, currentUri, changeTimers, currentSv2SvgOptions,
                   cfg, isTrusted, panels, renders, fs, unlinks, clock, lastCompleted, view>>

\* A dispose handler that forgets the panel and keeps the document.
DisposePanelKeepsUri ==
    /\ sharedPanel # 0
    /\ panels' = [panels EXCEPT ![sharedPanel] =
                     [state |-> "disposed", html |-> <<>>, title |-> ""]]
    /\ sharedPanel' = 0
    /\ UNCHANGED <<handlers, call, currentUri, changeTimers, currentSv2SvgOptions, cfg,
                   isTrusted, renders, timeouts, sinceEdit, fs, unlinks, clock,
                   lastCompleted, view>>

\* The user closes the panel: onDidDispose (lines 189-192).
DisposePanel ==
    /\ sharedPanel # 0
    /\ panels' = [panels EXCEPT ![sharedPanel] =
                     [state |-> "disposed", html |-> <<>>, title |-> ""]]
    /\ sharedPanel' = 0
    /\ currentUri' = ""
    /\ UNCHANGED <<handlers, call, changeTimers, currentSv2SvgOptions, cfg, isTrusted, renders,
                   timeouts, sinceEdit, fs, unlinks, clock, lastCompleted, view>>

\* deactivate() (lines 162-166): the panel, if there is one, is disposed, which
\* runs its dispose handler, and both variables are cleared.  The renders in
\* flight go on.
Deactivate ==
    /\ panels' = IF sharedPanel = 0 THEN panels
                 ELSE [panels EXCEPT ![sharedPanel] =
                         [state |-> "disposed", html |-> <<>>, title |-> ""]]
    /\ sharedPanel' = 0
    /\ currentUri' = ""
    /\ UNCHANGED <<handlers, call, changeTimers, currentSv2SvgOptions, cfg, isTrusted, renders,
                   timeouts, sinceEdit, fs, unlinks, clock, lastCompleted, view>>

\* ------------------------------------------- the settings of the webview

\* The order in which saveSv2SvgOptions writes the fields (lines 77-87).
OptionFields ==
    <<"inputOrder", "gridX", "gridY", "noSymmetry", "style", "orientation",
      "table", "noCaption", "fillGates", "signalStyles", "fanoutWires">>

\* The records the settings form posts with updateSettings.
SettingsSet ==
    {[getDefaultSv2SvgOptions EXCEPT !.inputOrder = "ports", !.gridY = 3],
     [getDefaultSv2SvgOptions EXCEPT !.orientation = "vertical",
                                      !.fanoutWires = TRUE]}

IdleHandlers == {h \in HandlerIds : handlers[h].pc = "idle"}
NextHandler == CHOOSE h \in IdleHandlers : \A k \in IdleHandlers : h <= k

\* onDidReceiveMessage up to its first await (lines 197-199 and 205-207): the
\* options in memory are replaced and the first cfg.update is requested.
OnMessage(settings) ==
    /\ sharedPanel # 0
    /\ IdleHandlers # {}
    /\ currentSv2SvgOptions' = settings
    /\ handlers' = [handlers EXCEPT ![NextHandler] =
                       [pc |-> "saving", settings |-> settings, pos |-> 0,
                        render |-> 0]]
    /\ UNCHANGED <<sharedPanel, currentUri, changeTimers, cfg, isTrusted, panels,
                   renders, timeouts, sinceEdit, fs, unlinks, clock,
                   lastCompleted, call, view>>

\* The webview posts { type: 'updateSettings', settings }.
UpdateSettings(settings) ==
    /\ settings \in SettingsSet
    /\ OnMessage(settings)

\* The webview posts { type: 'resetSettings' }.
ResetSettings ==
    /\ getDefaultSv2SvgOptions \notin SettingsSet
    /\ OnMessage(getDefaultSv2SvgOptions)

\* The workspace configuration after the next field of handler h is written.
Persist(h) ==
    LET f == OptionFields[handlers[h].pos + 1]
    IN  [cfg EXCEPT !.renderOptions =
            [cfg.renderOptions EXCEPT ![f] = handlers[h].settings[f]]]

\* An await cfg.update(...) of saveSv2SvgOptions settles and the next one is
\* requested (lines 77-86).
UpdateDone(h) ==
    /\ handlers[h].pc = "saving"
    /\ handlers[h].pos + 1 < Len(OptionFields)
    /\ cfg' = Persist(h)
    /\ handlers' = [handlers EXCEPT ![h].pos = handlers[h].pos + 1]
    /\ UNCHANGED <<sharedPanel, currentUri, changeTimers, currentSv2SvgOptions,
                   isTrusted, panels, renders, timeouts, sinceEdit, fs, unlinks,
                   clock, lastCompleted, call, view>>

\* The last cfg.update settles (line 87): saveSv2SvgOptions returns and the
\* handler goes on to its render (lines 200-202 and 208-210).
LastUpdateDone(h) ==
    /\ handlers[h].pc = "saving"
    /\ handlers[h].pos + 1 = Len(OptionFields)
    /\ cfg' = Persist(h)
    /\ IF currentUri # "" /\ sharedPanel # 0
         THEN /\ IdleRenders # {}
              /\ renderToPanel(currentUri, sharedPanel, FALSE, panels)
              /\ handlers' = [handlers EXCEPT ![h].pos = Len(OptionFields),
                                               ![h].pc = "done",
                                               ![h].render = NextRender]
         ELSE /\ handlers' = [handlers EXCEPT ![h].pos = Len(OptionFields),
                                               ![h].pc = "done"]
              /\ UNCHANGED <<panels, renders, view>>
    /\ UNCHANGED <<sharedPanel, currentUri, changeTimers, currentSv2SvgOptions,
                   isTrusted, timeouts, sinceEdit, fs, unlinks, clock,
                   lastCompleted, call, view>>

\* An await cfg.update(...) rejects (the settings file cannot be written, no
\* workspace is open): saveSv2SvgOptions and the handler reject.
UpdateFails(h) ==
    /\ handlers[h].pc = "saving"
    /\ handlers' = [handlers EXCEPT ![h].pc = "failed"]
    /\ UNCHANGED <<sharedPanel, currentUri, changeTimers, currentSv2SvgOptions,
                   cfg, isTrusted, panels, renders, timeouts, sinceEdit, fs,
                   unlinks, clock, lastCompleted, call, view>>

\* The exclusion patterns the user sets in the workspace configuration.
ExcludePatterns == {".*_tb\\.sv$", "^a\\.sv$"}

\* The user edits the setting sv2svgPreview.excludePattern; getCfg() reads
\* the configuration anew on every call (line 264).
ConfigChange(pattern) ==
    /\ pattern \in ExcludePatterns \ {cfg.excludePattern}
    /\ cfg' = [cfg EXCEPT !.excludePattern = pattern]
    /\ UNCHANGED <<sharedPanel, currentUri, changeTimers, currentSv2SvgOptions,
                   isTrusted, panels, renders, timeouts, sinceEdit, fs, unlinks,
                   clock, lastCompleted, handlers, call, view>>

\* The renderToPanel calls that have started and not finished.
InFlight == {r \in RenderIds : renders[r].pc \notin {"idle", "done", "rejected"}}

\* The steps that are the same in both specifications.
Steps ==
    \/ \E doc \in Docs : Edit(doc)
    \/ Elapse
    \/ DisposePanel
    \/ Deactivate
    \/ \E r \in RenderIds : OpenDocDone(r)
    \/ \E r \in RenderIds : WriteFileDone(r)
    \/ \E r \in RenderIds : FileExistsDone(r)
    \/ \E r \in RenderIds : ReadFileDone(r)
    \/ \E u \in unlinks : UnlinkDone(u)

\* The extension with overlapping renders; the tool exits with code 0.
Next ==
    \/ \E uri \in Docs : Open(uri)
    \/ Refresh
    \/ \E doc \in Docs : Save(doc)
    \/ \E t \in timeouts : TimerFire(t)
    \/ \E r \in RenderIds : PrimaryDone(r, SomePrimaryOutcomes)
    \/ \E r \in RenderIds : FallbackDone(r, SomeFallbackOutcomes)
    \/ Steps

Spec == Init /\ [][Next]_vars

\* The tool's run in the first render of such a session.
FirstRun == [exit |-> "zero", stdout |-> "<svg>p</svg>\nlog", stderr |-> ""]

\* A session in which the preview of a document has been opened in a trusted
\* workspace and its first render has shown the SVG of the primary attempt.
InitRun ==
    /\ cfg \in CfgSet
    /\ currentSv2SvgOptions = loadSv2SvgOptions(cfg)
    /\ isTrusted = TRUE
    /\ sharedPanel = 1
    /\ currentUri \in {d \in Docs : ~isExcluded(cfg, d)}
    /\ changeTimers = [d \in Docs |-> 0]
    /\ panels = [p \in PanelIds |->
                   IF p = 1
                     THEN [state |-> "open",
                           html |-> wrapSvg("<svg>p</svg>", currentSv2SvgOptions),
                           title |-> makeTitle(currentUri)]
                     ELSE NoPanel]
    /\ renders = [r \in RenderIds |->
                    IF r = 1
                      THEN [IdleRender EXCEPT !.pc = "done", !.uri = currentUri,
                                              !.panel = 1, !.spawned = 1,
                                              !.options = currentSv2SvgOptions,
                                              !.primary = FirstRun,
                                              !.result = Ok("<svg>p</svg>")]
                      ELSE IdleRender]
    /\ timeouts = {}
    /\ sinceEdit = [d \in Docs |-> -1]
    /\ fs = {}
    /\ unlinks = {}
    /\ clock = 0
    /\ lastCompleted = [p \in PanelIds |-> IF p = 1 THEN 1 ELSE 0]
    /\ handlers = [h \in HandlerIds |-> IdleHandler]
    /\ call = NoCall
    /\ view = NoView

\* The extension with one render in flight at a time; the tool may do
\* anything it can do.
NextRun ==
    \/ InFlight = {} /\ \E uri \in Docs : Open(uri)
    \/ InFlight = {} /\ Refresh
    \/ InFlight = {} /\ \E doc \in Docs : Save(doc)
    \/ InFlight = {} /\ \E t \in timeouts : TimerFire(t)
    \/ \E r \in RenderIds : PrimaryDone(r, PrimaryOutcomes)
    \/ \E r \in RenderIds : FallbackDone(r, FallbackOutcomes)
    \/ \E pattern \in ExcludePatterns : ConfigChange(pattern)
    \/ Steps

SpecRun == InitRun /\ [][NextRun]_vars

\* The next step of render r: a promise it awaits settles.  A child process
\* ends, by itself or by the timeout of execFile; the other promises are file
\* operations.
RenderStep(r) ==
    \/ OpenDocDone(r)
    \/ WriteFileDone(r)
    \/ PrimaryDone(r, SomePrimaryOutcomes)
    \/ FallbackDone(r, SomeFallbackOutcomes)
    \/ FileExistsDone(r)
    \/ ReadFileDone(r)

\* The extension from its activation: previews are opened, refreshed and
\* closed while renders are in flight, documents are edited while none is, and
\* the debounce timers run; the tool exits with code 0.
NextLive ==
    \/ \E uri \in Docs : Open(uri)
    \/ Refresh
    \/ InFlight = {} /\ \E doc \in Docs : Edit(doc)
    \/ Elapse
    \/ \E t \in timeouts : TimerFire(t)
    \/ DisposePanel
    \/ \E r \in RenderIds : RenderStep(r)
    \/ \E u \in unlinks : UnlinkDone(u)

\* Every promise a render awaits settles in the end, and the event loop runs
\* the continuation of a settled promise: weak fairness of RenderStep(r).  A
\* step of render r is possible exactly while r is in flight (each position of
\* an unfinished render is the guard of one disjunct of RenderStep), so
\* WF_vars(RenderStep(r)) is written with that condition in the place of
\* ENABLED <<RenderStep(r)>>_vars.
RenderFair(r) == ([]<>(r \notin InFlight)) \/ ([]<><<RenderStep(r)>>_vars)

\* The started unlinks run as well.
SpecLive ==
    /\ Init
    /\ [][NextLive]_vars
    /\ \A r \in RenderIds : RenderFair(r)
    /\ WF_vars(\E u \in unlinks : UnlinkDone(u))

\* The extension with the settings form of an open preview in use: settings
\* messages arrive while earlier ones are still being handled.
NextSet ==
    \/ \E settings \in SettingsSet : UpdateSettings(settings)
    \/ ResetSettings
    \/ \E h \in HandlerIds : UpdateDone(h)
    \/ \E h \in HandlerIds : LastUpdateDone(h)
    \/ \E h \in HandlerIds : UpdateFails(h)
    \/ DisposePanel
    \/ \E r \in RenderIds : PrimaryDone(r, SomePrimaryOutcomes)
    \/ \E r \in RenderIds : FallbackDone(r, SomeFallbackOutcomes)
    \/ \E r \in RenderIds : FileExistsDone(r)
    \/ \E r \in RenderIds : ReadFileDone(r)
    \/ \E u \in unlinks : UnlinkDone(u)

SpecSet == InitRun /\ [][NextSet]_vars

\* ------------------------------------------------ calls of the functions

\* The render options of the calls: every field at its default or at another
\* value; a grid size is also negative (the form parses what is typed, and the
\* settings file holds what was written to it).
OptionInputs ==
    [inputOrder : {"alpha", "ports"}, gridX : {-1, 0, 12}, gridY : {0, 3},
     noSymmetry : BOOLEAN, style : {"classic", "dark"},
     orientation : {"horizontal", "vertical"}, table : BOOLEAN,
     noCaption : BOOLEAN, fillGates : BOOLEAN, signalStyles : BOOLEAN,
     fanoutWires : BOOLEAN]

\* The configurations of the calls: the ones of CfgSet, each with either
\* value of argsBeforeFile and with and without extra arguments.
FnCfgSet ==
    {[c EXCEPT !.argsBeforeFile = b, !.args = a] :
        c \in CfgSet, b \in BOOLEAN, a \in {<<>>, <<"-o", "-">>}}

\* The argument vectors and paths rewriteOutputPath is called with.
RewriteInputs ==
    [args : {<<"sv2svg", "/w/a.sv", "-o", "-">>,
             <<"--quiet", "sv2svg", "--output", "-", "/w/a.sv">>,
             <<"sv2svg", "/w/a.sv">>,
             <<"sv2svg", "-o", "-", "/w/a.sv", "--output", "-">>,
             <<"sv2svg", "/w/a.sv", "-o">>,
             <<"sv2svg", "-o", "out.svg", "/w/a.sv">>,
             <<"sv2svg", "-", "-o", "-">>,
             <<"sv2svg", "-o", "--output", "-">>,
             <<>>},
     newPath : {"/tmp/sv2svg-out-0-a.sv.svg", "/tmp/sv2svg-out-1-b c.sv.svg"}]

\* The texts extractSvg is called with: the stdout of runs of the tool.
ExtractInputs ==
    {"<svg>p</svg>\nlog",
     "log <svg>q</svg> end",
     "  <svg width=\"10\">\n <g/>\n</svg>  \n",
     "<svg><svg>i</svg></svg> done",
     "<svg>a</svg>\n<svg>b</svg>\n",
     "<svg>a</svg> wrote </svg>",
     "<svg>p",
     "</svg> <svg",
     "no image",
     ""}

\* The calls: lines 308-310 (buildArgs and the vector for the runner), line
\* 320 (rewriteOutputPath), lines 313 and 328 (extractSvg).
FnCalls ==
    {[fn |-> "buildArgs", filePath |-> d, options |-> o, out |-> Null,
      argv |-> Null] : d \in Docs, o \in OptionInputs}
    \cup {[fn |-> "rewriteOutputPath", args |-> i.args, newPath |-> i.newPath,
           out |-> Null] : i \in RewriteInputs}
    \cup {[fn |-> "extractSvg", s |-> t, out |-> Null] : t \in ExtractInputs}

\* The extension before any preview is opened, about to make one of the calls;
\* the options in memory are the ones of the call.
InitFn ==
    /\ sharedPanel = 0
    /\ currentUri = ""
    /\ changeTimers = [d \in Docs |-> 0]
    /\ cfg \in FnCfgSet
    /\ call \in FnCalls
    /\ currentSv2SvgOptions =
          IF call.fn = "buildArgs" THEN call.options ELSE loadSv2SvgOptions(cfg)
    /\ isTrusted = TRUE
    /\ panels = [p \in PanelIds |-> NoPanel]
    /\ renders = [r \in RenderIds |-> IdleRender]
    /\ timeouts = {}
    /\ sinceEdit = [d \in Docs |-> -1]
    /\ fs = {}
    /\ unlinks = {}
    /\ clock = 0
    /\ lastCompleted = [p \in PanelIds |-> 0]
    /\ handlers = [h \in HandlerIds |-> IdleHandler]
    /\ view = NoView

\* Lines 308-310: buildArgs(cfg, targetPath, cfg.args, options) returns, and
\* the vector for the runner is made of cfg.runnerArgs and its value.
BuildArgsCall ==
    /\ call.fn = "buildArgs"
    /\ call.out = Null
    /\ LET c == getCfg(cfg)
           rec == SpawnPrimary([IdleRender EXCEPT !.cfg = c], call.filePath)
       IN  call' = [call EXCEPT
                      !.out = Some(buildArgs(c, call.filePath, c.args, call.options)),
                      !.argv = Some(rec.fullArgs)]
    /\ UNCHANGED <<sharedPanel, currentUri, changeTimers, currentSv2SvgOptions,
                   cfg, isTrusted, panels, renders, timeouts, sinceEdit, fs,
                   unlinks, clock, lastCompleted, handlers, view>>

\* Line 320: rewriteOutputPath(fullArgs, outTmp) returns.
RewriteCall ==
    /\ call.fn = "rewriteOutputPath"
    /\ call.out = Null
    /\ call' = [call EXCEPT !.out = Some(rewriteOutputPath(call.args, call.newPath))]
    /\ UNCHANGED <<sharedPanel, currentUri, changeTimers, currentSv2SvgOptions,
                   cfg, isTrusted, panels, renders, timeouts, sinceEdit, fs,
                   unlinks, clock, lastCompleted, handlers, view>>

\* Lines 313 and 328: extractSvg(stdout) returns.
ExtractCall ==
    /\ call.fn = "extractSvg"
    /\ call.out = Null
    /\ call' = [call EXCEPT !.out = Some(extractSvg(call.s))]
    /\ UNCHANGED <<sharedPanel, currentUri, changeTimers, currentSv2SvgOptions,
                   cfg, isTrusted, panels, renders, timeouts, sinceEdit, fs,
                   unlinks, clock, lastCompleted, handlers, view>>

NextFn == BuildArgsCall \/ RewriteCall \/ ExtractCall

SpecFn == InitFn /\ [][NextFn]_vars

\* ------------------------------------------------ the page of a document

\* The numbers of the page script.  The script computes with doubles; here a
\* number is the exact fraction n / d in lowest terms with d > 0, and d = 0
\* is NaN.
NaN == [n |-> 0, d |-> 0]

Abs(n) == IF n < 0 THEN 0 - n ELSE n

RECURSIVE Gcd(_, _)
Gcd(a, b) == IF b = 0 THEN a ELSE Gcd(b, a % b)

Rat(n, d) ==
    IF d = 0 THEN NaN
    ELSE LET g == Gcd(Abs(n), Abs(d))
             m == IF d < 0 THEN 0 - n ELSE n
         IN  [n |-> (IF m < 0 THEN -1 ELSE 1) * (Abs(m) \div g), d |-> Abs(d) \div g]

IsNaN(a) == a.d = 0
RAdd(a, b) == IF IsNaN(a) \/ IsNaN(b) THEN NaN ELSE Rat(a.n * b.d + b.n * a.d, a.d * b.d)
RNeg(a) == IF IsNaN(a) THEN NaN ELSE [n |-> 0 - a.n, d |-> a.d]
RSub(a, b) == RAdd(a, RNeg(b))
RMul(a, b) == IF IsNaN(a) \/ IsNaN(b) THEN NaN ELSE Rat(a.n * b.n, a.d * b.d)
\* a / b for b # 0 (the script divides by 2 and by the size of the container).
RDiv(a, b) == IF IsNaN(a) \/ IsNaN(b) THEN NaN ELSE Rat(a.n * b.d, a.d * b.n)
Whole(n) == [n |-> n, d |-> 1]

\* s.split(sep) for a separator of one character.
RECURSIVE Split(_, _)
Split(s, sep) ==
    LET hits == {i \in 1..Len(s) : CharAt(s, i) = sep}
    IN  IF hits = {} THEN <<s>>
        ELSE LET i == CHOOSE k \in hits : \A j \in hits : k <= j
             IN  <<SubSeq(s, 1, i - 1)>> \o Split(SubSeq(s, i + 1, Len(s)), sep)

DigitChars == <<"0", "1", "2", "3", "4", "5", "6", "7", "8", "9">>
IsDigits(t) == \A i \in 1..Len(t) : \E k \in 1..10 : DigitChars[k] = CharAt(t, i)

\* The value of a text of decimal digits ("" is 0).
RECURSIVE DigitsValue(_)
DigitsValue(t) ==
    IF t = "" THEN 0
    ELSE 10 * DigitsValue(SubSeq(t, 1, Len(t) - 1))
           + ((CHOOSE k \in 1..10 : DigitChars[k] = CharAt(t, Len(t))) - 1)

RECURSIVE Pow10(_)
Pow10(k) == IF k = 0 THEN 1 ELSE 10 * Pow10(k - 1)

\* Number(text) for the decimal notations: white space around the number is
\* skipped, the empty text is 0, a text that is not a number is NaN.
Number(text) ==
    LET t    == Trim(text)
        neg  == Len(t) > 0 /\ CharAt(t, 1) = "-"
        u    == IF neg THEN SubSeq(t, 2, Len(t)) ELSE t
        ps   == Split(u, ".")
        ip   == ps[1]
        fp   == IF Len(ps) = 2 THEN ps[2] ELSE ""
        ok   == /\ Len(ps) <= 2
                /\ IsDigits(ip) /\ IsDigits(fp)
                /\ Len(ip) + Len(fp) > 0
        v    == Rat(DigitsValue(ip) * Pow10(Len(fp)) + DigitsValue(fp), Pow10(Len(fp)))
    IN  IF t = "" THEN Whole(0)
        ELSE IF ~ok THEN NaN
        ELSE IF neg THEN RNeg(v) ELSE v

\* The digits after the decimal point of rem / d (d has no prime factor but
\* 2 and 5, so there are finitely many).
RECURSIVE Frac(_, _)
Frac(rem, d) ==
    IF rem = 0 THEN ""
    ELSE Digits((rem * 10) \div d) \o Frac((rem * 10) % d, d)

\* String(a), as join(' ') applies it to a number.
NumText(a) ==
    IF IsNaN(a) THEN "NaN"
    ELSE LET m == Abs(a.n)
         IN  (IF a.n < 0 THEN "-" ELSE "") \o Digits(m \div a.d)
                \o (IF m % a.d = 0 THEN "" ELSE "." \o Frac(m % a.d, a.d))

\* Lines 915-917 (and 928, 963, 983): the viewBox attribute split at the
\* spaces, and the parts as numbers.
ViewBoxParts(attr) == Split(attr, " ")
ViewBoxNumbers(attr) == [i \in 1..Len(ViewBoxParts(attr)) |-> Number(ViewBoxParts(attr)[i])]

\* [x, y, w, h].join(' ')
ViewBoxText(x, y, w, h) == Join(<<NumText(x), NumText(y), NumText(w), NumText(h)>>, " ")

\* Lines 917-922 and 985-991: the rectangle scaled by factor about its centre,
\* as the zoom-in button and the wheel compute it.
ZoomTowards(attr, factor) ==
    LET vb   == ViewBoxNumbers(attr)
        newW == RMul(vb[3], factor)
        newH == RMul(vb[4], factor)
        newX == RAdd(vb[1], RDiv(RSub(vb[3], newW), Whole(2)))
        newY == RAdd(vb[2], RDiv(RSub(vb[4], newH), Whole(2)))
    IN  IF Len(ViewBoxParts(attr)) = 4 THEN ViewBoxText(newX, newY, newW, newH) ELSE attr

\* Lines 930-935: the rectangle scaled about its centre, as the zoom-out
\* button computes it.
ZoomAway(attr, factor) ==
    LET vb   == ViewBoxNumbers(attr)
        newW == RMul(vb[3], factor)
        newH == RMul(vb[4], factor)
        newX == RSub(vb[1], RDiv(RSub(newW, vb[3]), Whole(2)))
        newY == RSub(vb[2], RDiv(RSub(newH, vb[4]), Whole(2)))
    IN  IF Len(ViewBoxParts(attr)) = 4 THEN ViewBoxText(newX, newY, newW, newH) ELSE attr

\* Lines 963-969: the rectangle moved against a drag of (dx, dy) pixels in a
\* container of the size rect.
Pan(attr, dx, dy, rect) ==
    LET vb   == ViewBoxNumbers(attr)
        vbDx == RNeg(RMul(RDiv(Whole(dx), Whole(rect.width)), vb[3]))
        vbDy == RNeg(RMul(RDiv(Whole(dy), Whole(rect.height)), vb[4]))
    IN  IF Len(ViewBoxParts(attr)) = 4
          THEN ViewBoxText(RAdd(vb[1], vbDx), RAdd(vb[2], vbDy), vb[3], vb[4])
          ELSE attr

\* The factors of the script: lines 918, 931 and 986.
ZoomInFactor == Rat(8, 10)
ZoomOutFactor == Rat(125, 100)
WheelFactor(deltaY) == IF deltaY < 0 THEN Rat(9, 10) ELSE Rat(11, 10)

\* The viewBox attributes of the images the tool draws (Null: the root
\* element has none), in the notations SVG has for four numbers.
ViewBoxAttrs ==
    {Some("0 0 100 50"), Some("-10 -5 40 20"), Some("0,0,100,50"),
     Some("0  0 100 50"), Null}

\* The inputs of the events: pointer positions, the size of the container,
\* wheel movements, the elements a key press is sent to, the keys.
Pointers == {[x |-> 0, y |-> 0], [x |-> 40, y |-> 20]}
ContainerRects == {[width |-> 200, height |-> 100]}
WheelDeltas == {-100, 100}
MouseButtons == {0, 2}
Targets == {"BODY", "BUTTON", "INPUT", "SELECT"}
Keys == {"+", "=", "-", "_", "0", "s", "S", "Escape", "a"}

\* Lines 900-906, 944-947 and 1037: the page script has run on a document
\* whose image has the viewBox attribute attr.  viewBox is the attribute of
\* the image now; transform is the scale and the translation of the image's
\* style, which the document sets to none; open and visible are the classes
\* of the settings panel and of the overlay.  event is the last handler that
\* ran (for a key press, field tells whether its target was an INPUT or a
\* SELECT and escape whether the key was Escape), and moves counts the zooms
\* and pans made since the load.
LoadedView(attr) ==
    [loaded |-> TRUE, hasViewBox |-> attr # Null, viewBoxAttr |-> attr,
     viewBox |-> attr, transform |-> [scale |-> Whole(1), x |-> Whole(0), y |-> Whole(0)],
     panning |-> FALSE, startX |-> 0, startY |-> 0,
     open |-> FALSE, visible |-> FALSE,
     event |-> "load", field |-> FALSE, escape |-> FALSE, moves |-> 0]

\* The displayed document is a wrapSvg document and its page script has run.
InitView ==
    /\ sharedPanel = 0
    /\ currentUri = ""
    /\ changeTimers = [d \in Docs |-> 0]
    /\ cfg \in {c \in CfgSet : c.onSave = "refresh"}
    /\ currentSv2SvgOptions = loadSv2SvgOptions(cfg)
    /\ isTrusted = TRUE
    /\ panels = [p \in PanelIds |-> NoPanel]
    /\ renders = [r \in RenderIds |-> IdleRender]
    /\ timeouts = {}
    /\ sinceEdit = [d \in Docs |-> -1]
    /\ fs = {}
    /\ unlinks = {}
    /\ clock = 0
    /\ lastCompleted = [p \in PanelIds |-> 0]
    /\ handlers = [h \in HandlerIds |-> IdleHandler]
    /\ call = NoCall
    /\ view \in {LoadedView(a) : a \in ViewBoxAttrs}

\* What every event of the page leaves alone: the extension.
ExtensionUnchanged ==
    UNCHANGED <<sharedPanel, currentUri, changeTimers, currentSv2SvgOptions,
                cfg, isTrusted, panels, renders, timeouts, sinceEdit, fs,
                unlinks, clock, lastCompleted, handlers, call>>

\* Lines 913-924: the click handler of the zoom-in button.
zoomInClick(v) ==
    IF ~v.hasViewBox THEN v
    ELSE [v EXCEPT !.viewBox = Some(ZoomTowards(v.viewBox[1], ZoomInFactor))]

\* Lines 926-937: the click handler of the zoom-out button.
zoomOutClick(v) ==
    IF ~v.hasViewBox THEN v
    ELSE [v EXCEPT !.viewBox = Some(ZoomAway(v.viewBox[1], ZoomOutFactor))]

\* A reset to a default rectangle instead of the one of the image.
resetClickDefault(v) ==
    IF ~v.hasViewBox THEN v ELSE [v EXCEPT !.viewBox = Some("0 0 100 50")]

\* Lines 939-942: the click handler of the reset button.
resetClick(v) ==
    IF ~v.hasViewBox THEN v ELSE [v EXCEPT !.viewBox = v.viewBoxAttr]

\* Lines 1005-1008 and 1078-1081: the settings panel closed.
ClosePanel(v) == [v EXCEPT !.open = FALSE, !.visible = FALSE]
\* Lines 1038-1041 and 1085-1086: the settings panel opened.
OpenPanel(v) == [v EXCEPT !.open = TRUE, !.visible = TRUE]

\* An event of the page: after is the state its handler leaves.
Event(name, field, escape, after) ==
    /\ (after.viewBox # view.viewBox /\ after.viewBox # view.viewBoxAttr)
          => view.moves < MaxMoves
    /\ view' = [after EXCEPT
                  !.event = name, !.field = field, !.escape = escape,
                  !.moves = IF /\ after.viewBox # view.viewBox
                               /\ after.viewBox # view.viewBoxAttr
                              THEN view.moves + 1 ELSE view.moves]
    /\ ExtensionUnchanged

ClickZoomIn ==
    /\ view.loaded
    /\ Event("zoomIn", FALSE, FALSE, zoomInClick(view))

ClickZoomOut ==
    /\ view.loaded
    /\ Event("zoomOut", FALSE, FALSE, zoomOutClick(view))

ClickReset ==
    /\ view.loaded
    /\ Event("reset", FALSE, FALSE, resetClick(view))

\* Lines 949-957: a mouse button goes down in the container.
MouseDown(button, at) ==
    /\ view.loaded
    /\ Event("mousedown", FALSE, FALSE,
          IF button = 0 /\ view.hasViewBox
            THEN [view EXCEPT !.panning = TRUE, !.startX = at.x, !.startY = at.y]
            ELSE view)

\* Lines 959-973: the pointer moves.
MouseMove(at, rect) ==
    /\ view.loaded
    /\ Event("mousemove", FALSE, FALSE,
          IF ~view.panning THEN view
          ELSE [view EXCEPT
                  !.viewBox = Some(Pan(view.viewBox[1], at.x - view.startX,
                                       at.y - view.startY, rect)),
                  !.startX = at.x, !.startY = at.y])

\* Lines 975-978: a mouse button goes up.
MouseUp ==
    /\ view.loaded
    /\ Event("mouseup", FALSE, FALSE, [view EXCEPT !.panning = FALSE])

\* Lines 980-993: the wheel turns over the container.
Wheel(deltaY) ==
    /\ view.loaded
    /\ Event("wheel", FALSE, FALSE,
          IF ~view.hasViewBox THEN view
          ELSE [view EXCEPT
                  !.viewBox = Some(ZoomTowards(view.viewBox[1], WheelFactor(deltaY)))])

\* Lines 1038-1041: the settings button.
ClickMenu ==
    /\ view.loaded
    /\ Event("menu", FALSE, FALSE, OpenPanel(view))

\* Lines 1043-1046: a click on the overlay.
ClickOverlay ==
    /\ view.loaded
    /\ Event("overlay", FALSE, FALSE, ClosePanel(view))

\* Lines 1048-1053: the Apply button posts the settings of the form (the
\* message is the one OnMessage handles) and closes the panel.
ClickApply ==
    /\ view.loaded
    /\ Event("apply", FALSE, FALSE, ClosePanel(view))

\* Lines 1055-1059: the Reset to Defaults button posts resetSettings and
\* closes the panel.
ClickResetSettings ==
    /\ view.loaded
    /\ Event("resetBtn", FALSE, FALSE, ClosePanel(view))

\* A keydown handler without the test of the target.
keydownAnywhere(v, target, key) ==
    IF key \in {"+", "="} THEN zoomInClick(v)
    ELSE IF key \in {"-", "_"} THEN zoomOutClick(v)
    ELSE IF key = "0" THEN resetClick(v)
    ELSE IF key \in {"s", "S"} THEN (IF v.open THEN ClosePanel(v) ELSE OpenPanel(v))
    ELSE IF key = "Escape" THEN ClosePanel(v)
    ELSE v

\* Lines 1062-1102: a key goes down with the focus on an element of the kind
\* target.
keydown(v, target, key) ==
    IF target \in {"INPUT", "SELECT"}
      THEN IF key = "Escape" THEN ClosePanel(v) ELSE v
    ELSE IF key \in {"+", "="} THEN zoomInClick(v)
    ELSE IF key \in {"-", "_"} THEN zoomOutClick(v)
    ELSE IF key = "0" THEN resetClick(v)
    ELSE IF key \in {"s", "S"} THEN (IF v.open THEN ClosePanel(v) ELSE OpenPanel(v))
    ELSE IF key = "Escape" THEN ClosePanel(v)
    ELSE v

KeyDown(target, key) ==
    /\ view.loaded
    /\ Event("keydown", target \in {"INPUT", "SELECT"}, key = "Escape",
             keydown(view, target, key))

NextView ==
    \/ ClickZoomIn
    \/ ClickZoomOut
    \/ ClickReset
    \/ \E b \in MouseButtons, at \in Pointers : MouseDown(b, at)
    \/ \E at \in Pointers, rect \in ContainerRects : MouseMove(at, rect)
    \/ MouseUp
    \/ \E deltaY \in WheelDeltas : Wheel(deltaY)
    \/ ClickMenu
    \/ ClickOverlay
    \/ ClickApply
    \/ ClickResetSettings
    \/ \E target \in Targets, key \in Keys : KeyDown(target, key)

SpecView == InitView /\ [][NextView]_vars

\* ================================================================ properties

\* The renderToPanel calls that have finished, and the ones whose runSv2Svg
\* is in its fallback attempt.
Finished == {r \in RenderIds : renders[r].pc \in {"done", "rejected"}}
InFallback == {r \in RenderIds : renders[r].pc \in {"fallback", "fileExists", "readFile"}}

\* A run of the tool was made (its record is there).
Ran(run) == DOMAIN run # {}

\* The primary attempt fails: the process does not exit with code 0 (or is
\* killed at a limit), or its stdout holds no SVG opening tag.
PrimaryFails(o) == o.exit # "zero" \/ ~Includes(o.stdout, "<svg")

\* The argument vector names path as the output file and no longer asks for
\* stdout output.
NamesOutput(args, path) ==
    /\ \E i \in 1..(Len(args) - 1) :
          args[i] \in {"-o", "--output"} /\ args[i + 1] = path
    /\ \A i \in 1..(Len(args) - 1) :
          args[i] \in {"-o", "--output"} => args[i + 1] # "-"

\* The part of C1 that holds of every render: a failed primary attempt is
\* followed by one fallback attempt whose arguments name the temp output
\* file, a successful one by none, and no render starts more than two
\* processes.
FallbackRule(rec) ==
    /\ rec.spawned <= 2
    /\ rec.pc \in {"openDoc", "writeFile"} => rec.spawned = 0
    /\ rec.pc = "primary" => rec.spawned = 1
    /\ rec.pc \in {"fallback", "fileExists", "readFile"} =>
          /\ rec.spawned = 2
          /\ PrimaryFails(rec.primary)
          /\ rec.outTmp # ""
          /\ rec.outTmp \notin {rec.tmpPath, rec.uri}
          /\ NamesOutput(rec.argsWithFile, rec.outTmp)
    /\ rec.pc \in {"done", "rejected"} =>
          /\ rec.spawned = 1 =>
                Ran(rec.primary) /\ ~PrimaryFails(rec.primary) /\ ~Ran(rec.fallback)
          /\ rec.spawned = 2 =>
                Ran(rec.primary) /\ PrimaryFails(rec.primary) /\ Ran(rec.fallback)

\* C1 as stated: the fallback rule, and every finished render has started at
\* least one and at most two external processes.
C1_EveryRenderSpawns ==
    \A r \in RenderIds :
        /\ FallbackRule(renders[r])
        /\ r \in Finished => renders[r].spawned \in {1, 2}

\* C1, amended: the fallback rule holds, and a finished render has started
\* one or two external processes unless it is a live-preview render that
\* failed before its primary attempt (no panel, the document could not be
\* opened, the scratch file could not be written): that one has started none.
C1_FallbackOnce ==
    \A r \in RenderIds :
        /\ FallbackRule(renders[r])
        /\ r \in Finished /\ renders[r].spawned = 0 =>
              /\ renders[r].useTemp
              /\ ~renders[r].result.ok
              /\ ~Ran(renders[r].primary)

\* A primary attempt has failed and the fallback attempt is running.
C1_Witness == \E r \in RenderIds : renders[r].pc = "fallback"

\* The tool put an SVG on the stdout of a run.
SvgOnStdout(o) == ~Falsy(extractSvg(o.stdout))

\* C2 as stated: of a render that made the fallback run, the result is the
\* content of the output file when the run created it, whatever its stdout
\* holds; without the file it is the SVG of the run's stdout, or an error.
C2_FileBeforeStdout ==
    \A r \in Finished :
        Ran(renders[r].fallback) =>
            LET o == renders[r].fallback
            IN  IF o.file # Null THEN renders[r].result = Ok(o.file[1])
                ELSE IF SvgOnStdout(o)
                       THEN renders[r].result = Ok(extractSvg(o.stdout)[1])
                       ELSE ~renders[r].result.ok

\* C3 as stated: a render one of whose runs exited with a non-zero code but
\* put an SVG on stdout, or (the fallback) created the output file, succeeds.
C3_ExitCodeAdvisory ==
    \A r \in Finished :
        LET rec == renders[r]
            primaryHas == /\ Ran(rec.primary)
                          /\ rec.primary.exit = "nonzero"
                          /\ SvgOnStdout(rec.primary)
            fallbackHas == /\ Ran(rec.fallback)
                           /\ rec.fallback.exit = "nonzero"
                           /\ (rec.fallback.file # Null \/ SvgOnStdout(rec.fallback))
        IN  primaryHas \/ fallbackHas => rec.result.ok

\* C4 as stated: when a fallback run ends that created no output file and put
\* no SVG on stdout, runSv2Svg fails with an error that contains the run's
\* stderr (the primary attempt's error message if that is empty) and the
\* runner followed by the shell-escaped rewritten argument vector.
C4_ErrorNamesCauseAndCommand ==
    [][\A r \in RenderIds :
          (/\ r \in InFallback
           /\ renders'[r].pc \in {"done", "rejected"}
           /\ renders'[r].fallback.file = Null
           /\ ~SvgOnStdout(renders'[r].fallback))
          => LET o == renders'[r].fallback
                 cause == IF o.stderr # "" THEN o.stderr ELSE renders[r].msg
                 cmd == renders[r].cfg.runner \o " "
                            \o shellEscape(renders[r].argsWithFile)
             IN  /\ ~renders'[r].result.ok
                 /\ Includes(renders'[r].result.value, cause)
                 /\ Includes(renders'[r].result.value, cmd)]_vars

\* C5 as stated, in the form a finite run decides: a temp file that exists
\* belongs to a render that is still running or has its deletion started.
C5_DeletionOnEveryPath ==
    \A f \in fs :
        \/ \E u \in unlinks : u.path = f.path
        \/ \E r \in InFlight : f.path \in {renders[r].tmpPath, renders[r].outTmp}

\* C6 as stated: the files a finished render set out to delete no longer
\* exist.
C6_AbsentAtReturn ==
    \A u \in unlinks : u.by \in Finished => ~FileExistsAt(fs, u.path)

\* The document that shows the result res of runSv2Svg under options.
ShownWith(res, options) ==
    IF res.ok THEN wrapSvg(res.value, options) ELSE errorHtml(res.value)
Shown(res) == ShownWith(res, currentSv2SvgOptions)

\* The renders requested for panel p so far, the ones of them still running,
\* and the one requested last (requests are numbered in their order).
OnPanel(p) == {r \in RenderIds : renders[r].pc # "idle" /\ renders[r].panel = p}
RunningOn(p) == OnPanel(p) \cap InFlight
LatestOn(p) == CHOOSE r \in OnPanel(p) : \A q \in OnPanel(p) : q <= r

\* C7 as stated: no renderToPanel call rejects, and a panel whose last
\* render failed shows the error page of that failure.
C7_NeverRejects ==
    \A r \in RenderIds :
        /\ renders[r].pc # "rejected"
        /\ (/\ r \in Finished
            /\ ~renders[r].result.ok
            /\ PanelUsable(panels, renders[r].panel)
            /\ lastCompleted[renders[r].panel] = r
            /\ RunningOn(renders[r].panel) = {})
           => panels[renders[r].panel].html.kind = "error"

\* C8 as stated: once no render of the shared panel is running, the panel
\* shows the result of the render that was requested last.
C8_LatestRequestWins ==
    (sharedPanel # 0 /\ OnPanel(sharedPanel) # {} /\ RunningOn(sharedPanel) = {})
    => panels[sharedPanel].html = Shown(renders[LatestOn(sharedPanel)].result)

\* C8, amended: every render that completes on an open panel overwrites the
\* panel's display with its own result, whether or not a render requested
\* after it has completed already; so the result displayed when all renders
\* have completed is that of the render that completed last.
C8_LatestCompletionWins ==
    [][\A r \in RenderIds :
          (r \in InFlight /\ renders'[r].pc = "done")
          => /\ panels'[renders[r].panel].html =
                    ShownWith(renders'[r].result, currentSv2SvgOptions')
             /\ lastCompleted'[renders[r].panel] = r]_vars

\* Two renders of one panel overlapped, the one requested first completed
\* last, and the panel shows its result and not the other's.
C8_Witness ==
    \E p \in PanelIds :
        /\ panels[p].state = "open"
        /\ OnPanel(p) = {1, 2}
        /\ RunningOn(p) = {}
        /\ lastCompleted[p] = 1
        /\ panels[p].html = Shown(renders[1].result)
        /\ panels[p].html # Shown(renders[2].result)

\* C9: the document an open panel displays is the loading page or what one
\* finished render of the panel produced, and when no render of the panel is
\* running it is what the render that completed last produced.
C9_SingleSlot ==
    \A p \in PanelIds :
        panels[p].state = "open" =>
            /\ panels[p].html \in
                  {loadingHtml} \cup
                  {Shown(renders[r].result) : r \in OnPanel(p) \cap Finished}
            /\ RunningOn(p) = {} =>
                  panels[p].html = Shown(renders[lastCompleted[p]].result)

\* A panel on which a render succeeded and the render that completed last
\* failed: it shows the error page.
C9_Witness ==
    \E p \in PanelIds :
        /\ panels[p].state = "open"
        /\ RunningOn(p) = {}
        /\ Cardinality(OnPanel(p)) = 2
        /\ \E r \in OnPanel(p) : renders[r].result.ok
        /\ ~renders[lastCompleted[p]].result.ok
        /\ panels[p].html.kind = "error"

\* The pending timers of document d among ts, and the live-preview renders
\* of d that a step starts.
TimersOf(d, ts) == {t \in ts : t.doc = d}
LiveStarts(d) ==
    {r \in RenderIds : /\ renders[r].pc = "idle"
                       /\ renders'[r].pc # "idle"
                       /\ renders'[r].useTemp
                       /\ renders'[r].uri = d}

\* C10: a document has at most one pending timer.  An edit of the current
\* document with live preview on and the panel open leaves just one timer
\* for it, with 500 ms to run; no other step starts or restarts a timer, so
\* an edit of another document does not.  A timer goes away only when it is
\* replaced by an edit or when it expires, 500 ms after the last edit of its
\* document, and then exactly one render of the document starts; no
\* live-preview render starts otherwise.
C10_Debounce ==
    /\ [](\A d \in Docs : Cardinality(TimersOf(d, timeouts)) <= 1)
    /\ [][\A d \in Docs :
            /\ (Edit(d) /\ cfg.onChange /\ sharedPanel # 0 /\ d = currentUri)
               => /\ Cardinality(TimersOf(d, timeouts')) = 1
                  /\ \A t \in TimersOf(d, timeouts') : t.remaining = DebounceMs
                  /\ sinceEdit'[d] = 0
            /\ (\E t \in TimersOf(d, timeouts') :
                   /\ t.remaining = DebounceMs
                   /\ \A u \in TimersOf(d, timeouts) : u.remaining < DebounceMs)
               => /\ cfg.onChange /\ sharedPanel # 0 /\ d = currentUri
                  /\ \A e \in Docs \ {d} :
                        TimersOf(e, timeouts') = TimersOf(e, timeouts)
            /\ (TimersOf(d, timeouts) # {} /\ TimersOf(d, timeouts') = {})
               => /\ \A t \in TimersOf(d, timeouts) : t.remaining = 0
                  /\ sinceEdit[d] = DebounceMs
                  /\ Cardinality(LiveStarts(d)) = 1
            /\ LiveStarts(d) # {}
               => TimersOf(d, timeouts) # {} /\ TimersOf(d, timeouts') = {}
      ]_vars

\* The timer of an edited document has expired and started a live-preview
\* render of it, which is running.
C10_Witness ==
    \E r \in RenderIds :
        /\ renders[r].useTemp
        /\ renders[r].pc = "openDoc"
        /\ sinceEdit[renders[r].uri] = -1
        /\ TimersOf(renders[r].uri, timeouts) = {}

\* The renders whose first external process a step starts.
FirstSpawns == {r \in RenderIds : renders[r].spawned = 0 /\ renders'[r].spawned > 0}

\* C11 as stated: a step starts the external tool for a render only when the
\* workspace is trusted, the render has a target file and the file's base
\* name does not match the exclusion pattern as the configuration has it at
\* that step; an open command that fails a precondition changes no panel
\* (it shows a notice) and starts no render.
C11_PreconditionsFirst ==
    [][/\ \A r \in FirstSpawns :
             /\ isTrusted
             /\ renders'[r].uri # ""
             /\ ~isExcluded(cfg, renders'[r].uri)
       /\ \A uri \in Docs :
             (Open(uri) /\ (~isTrusted \/ isExcluded(cfg, uri)))
             => UNCHANGED <<panels, renders, view>>]_vars

\* A run that was killed at the time limit or at the output buffer limit.
LimitHit(o) == o.exit \in {"timeout", "maxbuffer"}

\* C12: a primary run killed at a limit is followed by the fallback run; a
\* fallback run killed at a limit makes the render fail with an error; and
\* when a render with such a run finishes, each of its temporary files is
\* gone already or has its deletion started.
C12_LimitsAreFailures ==
    /\ [](\A r \in RenderIds :
            /\ (Ran(renders[r].primary) /\ LimitHit(renders[r].primary))
               => \/ r \in InFallback
                  \/ r \in Finished /\ Ran(renders[r].fallback)
            /\ (r \in Finished /\ Ran(renders[r].fallback)
                  /\ LimitHit(renders[r].fallback))
               => ~renders[r].result.ok)
    /\ [][\A r \in InFlight :
            (/\ renders'[r].pc \in {"done", "rejected"}
             /\ \/ Ran(renders'[r].primary) /\ LimitHit(renders'[r].primary)
                \/ Ran(renders'[r].fallback) /\ LimitHit(renders'[r].fallback))
            => \A p \in {renders[r].tmpPath, renders[r].outTmp} \ {""} :
                  \/ ~FileExistsAt(fs', p)
                  \/ \E u \in unlinks' : u.path = p]_vars

\* A live-preview render whose primary run and fallback run were both killed
\* at a limit has finished.
C12_Witness ==
    \E r \in Finished :
        /\ renders[r].useTemp
        /\ Ran(renders[r].fallback)
        /\ LimitHit(renders[r].primary)
        /\ LimitHit(renders[r].fallback)

\* The temporary files render r uses: its scratch input and its fallback
\* output, once it has named them.
TempPaths(r) == {renders[r].tmpPath, renders[r].outTmp} \ {""}

\* C13 as stated: two renders that are in flight at the same time share no
\* temporary file path.
C13_PathsPerRender ==
    \A r1, r2 \in InFlight : r1 # r2 => TempPaths(r1) \cap TempPaths(r2) = {}

\* The handlers that finish persisting in a step while the panel is open.
Persisted == {h \in HandlerIds : /\ handlers[h].pc = "saving"
                                 /\ handlers'[h].pc = "done"
                                 /\ sharedPanel # 0}

\* C14 as stated: a handler that has persisted the record of its message (the
\* posted settings, or the defaults for resetSettings) starts a render whose
\* argument vector is built from exactly that record, whatever messages
\* arrived in the meantime.
C14_RenderFromMessage ==
    [][\A h \in Persisted :
          /\ handlers'[h].render # 0
          /\ LET rec == renders'[handlers'[h].render]
             IN  /\ rec.pc = "primary"
                 /\ rec.fullArgs =
                       rec.cfg.runnerArgs
                          \o buildArgs(rec.cfg, rec.uri, rec.cfg.args,
                                       handlers[h].settings)]_vars

\* C15 as stated: when no settings message is being handled, the persisted
\* render options equal the options in memory.
C15_PersistedIsCurrent ==
    (\A h \in HandlerIds : handlers[h].pc # "saving")
    => loadSv2SvgOptions(cfg) = currentSv2SvgOptions

\* The documented default of every field of the render options.
DocumentedDefaults ==
    [inputOrder |-> "alpha", gridX |-> 0, gridY |-> 0, noSymmetry |-> FALSE,
     style |-> "classic", orientation |-> "horizontal", table |-> FALSE,
     noCaption |-> FALSE, fillGates |-> FALSE, signalStyles |-> FALSE,
     fanoutWires |-> FALSE]

\* A call of buildArgs has returned.
Built == call.fn = "buildArgs" /\ call.out # Null

\* The vector of the subcommand, the path and the extra arguments with the
\* flags between them, in the order the configuration c asks for.
Vector(c, path, flags) ==
    IF c.argsBeforeFile THEN <<c.command>> \o flags \o c.args \o <<path>>
                        ELSE <<c.command, path>> \o flags \o c.args

\* C16: for render options with every field at its documented default,
\* buildArgs returns the subcommand, the target path and the extra arguments
\* only: no derived flag.
C16_DefaultsNoFlags ==
    (Built /\ call.options = DocumentedDefaults)
    => /\ call.out[1] = Vector(cfg, call.filePath, <<>>)
       /\ Len(call.out[1]) = 2 + Len(cfg.args)
       /\ getDefaultSv2SvgOptions = DocumentedDefaults

\* buildArgs has returned for the default options under a configuration with
\* extra arguments.
C16_Witness ==
    /\ Built
    /\ call.options = DocumentedDefaults
    /\ cfg.args # <<>>

\* String(n) for an integer n.
NumberText(n) == IF n < 0 THEN "-" \o Digits(0 - n) ELSE Digits(n)

\* The flag that corresponds to field f with the non-default value v: flag
\* and value for a choice or a number, the bare flag for a boolean.
FlagOf(f, v) ==
    CASE f = "inputOrder"   -> <<"--input-order", v>>
      [] f = "gridX"        -> <<"--grid-x", NumberText(v)>>
      [] f = "gridY"        -> <<"--grid-y", NumberText(v)>>
      [] f = "noSymmetry"   -> <<"--no-symmetry">>
      [] f = "table"        -> <<"--table">>
      [] f = "noCaption"    -> <<"--no-caption">>
      [] f = "fillGates"    -> <<"--fill-gates">>
      [] f = "signalStyles" -> <<"--signal-styles">>
      [] f = "fanoutWires"  -> <<"--fanout-wires">>
      [] f = "style"        -> <<"--style", v>>
      [] f = "orientation"  -> <<"--orientation", v>>

\* The fields in which the options differ from the documented defaults.
Changed(options) ==
    {f \in DOMAIN DocumentedDefaults : options[f] # DocumentedDefaults[f]}

\* C17 as stated: for options with exactly one field at a non-default value,
\* buildArgs returns the vector of the defaults with the flag of that field
\* (and its value, verbatim) in the place of the derived flags, and nothing
\* else changed.
C17_OneFieldOneFlag ==
    (Built /\ Cardinality(Changed(call.options)) = 1)
    => LET f == CHOOSE g \in Changed(call.options) : TRUE
       IN  call.out[1] = Vector(cfg, call.filePath, FlagOf(f, call.options[f]))

\* The words a derived flag consists of: the flags and the values of the
\* options of the call.
FlagWords(options) ==
    {"--input-order", "--grid-x", "--grid-y", "--no-symmetry", "--table",
     "--no-caption", "--fill-gates", "--signal-styles", "--fanout-wires",
     "--style", "--orientation",
     options.inputOrder, options.style, options.orientation,
     NumberText(options.gridX), NumberText(options.gridY)}

\* C18: the vector for the runner is runnerArgs, the subcommand, and then the
\* derived flags, the extra arguments and the path when argsBeforeFile is
\* set, the path, the derived flags and the extra arguments when it is not;
\* the extra arguments directly follow the derived flags and the path occurs
\* once.
C18_ArgumentOrder ==
    Built =>
        LET argv == call.argv[1]
            n == Len(cfg.runnerArgs)
            k == Len(cfg.args)
            m == Len(argv)
            \* the positions of the derived flags
            flags == IF cfg.argsBeforeFile THEN (n + 2)..(m - k - 1)
                                           ELSE (n + 3)..(m - k)
        IN  /\ m >= n + 2 + k
            /\ SubSeq(argv, 1, n) = cfg.runnerArgs
            /\ argv[n + 1] = cfg.command
            /\ SubSeq(argv, n + 1, m) = call.out[1]
            /\ IF cfg.argsBeforeFile
                 THEN /\ argv[m] = call.filePath
                      /\ SubSeq(argv, m - k, m - 1) = cfg.args
                 ELSE /\ argv[n + 2] = call.filePath
                      /\ SubSeq(argv, m - k + 1, m) = cfg.args
            /\ \A i \in flags : argv[i] \in FlagWords(call.options)
            /\ Cardinality({i \in 1..m : argv[i] = call.filePath}) = 1
            /\ (Changed(call.options) \ {"gridX"} # {}) => flags # {}

\* The vector has been built with runner arguments, derived flags and extra
\* arguments before the path.
C18_Witness ==
    /\ Built
    /\ cfg.argsBeforeFile
    /\ cfg.runnerArgs # <<>>
    /\ cfg.args # <<>>
    /\ call.options.style = "dark"
    /\ call.options.table

\* A call of rewriteOutputPath has returned.
Rewritten == call.fn = "rewriteOutputPath" /\ call.out # Null

\* The positions of args that hold -o or --output with "-" right after.
Markers(args) ==
    {i \in 1..(Len(args) - 1) : args[i] \in {"-o", "--output"} /\ args[i + 1] = "-"}

\* C19: when args holds -o or --output with "-" right after, the result of
\* rewriteOutputPath is args with the "-" after the first such marker replaced
\* by the path: the same length, and every other argument in its place.  When
\* args holds no such marker the result is args followed by -o and the path.
\* The call leaves its argument vector as it was.
C19_RewriteOutput ==
    /\ [](Rewritten =>
            LET args == call.args
                out  == call.out[1]
            IN  IF Markers(args) # {}
                  THEN /\ Len(out) = Len(args)
                       /\ \E i \in Markers(args) :
                            /\ \A j \in Markers(args) : i <= j
                            /\ out[i + 1] = call.newPath
                            /\ \A k \in (1..Len(args)) \ {i + 1} : out[k] = args[k]
                  ELSE out = args \o <<"-o", call.newPath>>)
    /\ [][call.fn = "rewriteOutputPath" =>
            /\ call'.args = call.args
            /\ call'.newPath = call.newPath]_vars

\* A vector with two markers has been rewritten: the path is after the first
\* and the "-" after the second is still there.
C19_Witness ==
    /\ Rewritten
    /\ call.args = <<"sv2svg", "-o", "-", "/w/a.sv", "--output", "-">>
    /\ call.out[1][3] = call.newPath
    /\ call.out[1][6] = "-"

\* A call of extractSvg has returned.
Extracted == call.fn = "extractSvg" /\ call.out # Null

\* The 0-based index of the closing tag that matches the opening tag which is
\* open at depth `depth` when the scan of s is at index i, or -1: an opening
\* tag met on the way has its own closing tag.
RECURSIVE MatchingClose(_, _, _)
MatchingClose(s, i, depth) ==
    IF i >= Len(s) THEN -1
    ELSE IF MatchAt(s, "</svg>", i)
           THEN IF depth = 1 THEN i ELSE MatchingClose(s, i + 6, depth - 1)
    ELSE IF MatchAt(s, "<svg", i) THEN MatchingClose(s, i + 4, depth + 1)
    ELSE MatchingClose(s, i + 1, depth)

\* The index of the closing tag of the first opening tag of s, or -1.
CloseOfFirst(s) ==
    IF IndexOf(s, "<svg") = -1 THEN -1
    ELSE MatchingClose(s, IndexOf(s, "<svg") + 4, 1)

\* C20: for a text that holds a complete image fragment, an opening <svg tag
\* with its matching closing tag, extractSvg returns that fragment, from the
\* first opening tag through its matching closing tag, trimmed, and none of
\* the text around it.
C20_ExactFragment ==
    (Extracted /\ CloseOfFirst(call.s) # -1)
    => call.out[1] =
         Some(Trim(Slice(call.s, IndexOf(call.s, "<svg"), CloseOfFirst(call.s) + 6)))

\* Whether s holds a closing tag at or after the 0-based index i.
ClosedAfter(s, i) == \E j \in i..Len(s) : MatchAt(s, "</svg>", j)

\* C21: for a text with an opening <svg tag and no closing tag after it,
\* extractSvg returns the text from the first opening tag to the end, trimmed;
\* for a text with no opening tag it returns null.
C21_OpenWithoutClose ==
    Extracted =>
        LET start == IndexOf(call.s, "<svg")
        IN  /\ start = -1 => call.out[1] = Null
            /\ (start # -1 /\ ~ClosedAfter(call.s, start))
                  => call.out[1] = Some(Trim(Slice(call.s, start, Len(call.s))))

\* C22: for an image with a viewBox, after any zooms and pans a reset sets
\* the viewBox attribute to
\* exactly the text captured when the page loaded, and that captured text
\* never changes; from "0 0 100 50" one zoom-in gives "10 5 80 40" and the
\* reset gives "0 0 100 50" again.
C22_ResetRestoresLoaded ==
    /\ []((view.loaded /\ view.hasViewBox /\ view.event = "reset")
             => view.viewBox = view.viewBoxAttr)
    /\ [][view.loaded =>
            /\ view'.viewBoxAttr = view.viewBoxAttr
            /\ (view.viewBox = Some("0 0 100 50") /\ view'.event = "zoomIn")
                 => view'.viewBox = Some("10 5 80 40")]_vars

\* A reset has brought back the loaded rectangle of an image after zooms and
\* pans had changed it twice.
C22_Witness ==
    /\ view.loaded
    /\ view.event = "reset"
    /\ view.moves = 2
    /\ view.viewBoxAttr = Some("-10 -5 40 20")
    /\ view.viewBox = view.viewBoxAttr

NotEmpty(t) == t # ""

\* The rectangle a viewBox attribute denotes in SVG: four numbers separated
\* by white space, by commas, or by both.
Rectangle(attr) ==
    LET parts == SelectSeq(Split(ReplaceChars(attr, [c \in {","} |-> " "]), " "),
                           NotEmpty)
    IN  [i \in 1..Len(parts) |-> Number(parts[i])]

\* The factors of the zoom whose handler is named event.
FactorsOf(event) ==
    IF event = "zoomIn" THEN {Rat(8, 10)}
    ELSE IF event = "zoomOut" THEN {Rat(125, 100)}
    ELSE {Rat(9, 10), Rat(11, 10)}

\* Rectangle b is rectangle a scaled by f about the centre of a.
ScaledAbout(a, b, f) ==
    /\ b[3] = RMul(a[3], f)
    /\ b[4] = RMul(a[4], f)
    /\ RAdd(b[1], RDiv(b[3], Whole(2))) = RAdd(a[1], RDiv(a[3], Whole(2)))
    /\ RAdd(b[2], RDiv(b[4], Whole(2))) = RAdd(a[2], RDiv(a[4], Whole(2)))

\* C23: every zoom on an image with a viewBox (the zoom-in button, the
\* zoom-out button, the wheel) multiplies the width and the height of the
\* viewBox by the factor of the zoom and leaves the centre of the rectangle
\* where it was.
C23_ZoomAboutCentre ==
    [][(view.loaded /\ view.hasViewBox
          /\ view'.event \in {"zoomIn", "zoomOut", "wheel"})
       => \E f \in FactorsOf(view'.event) :
             ScaledAbout(Rectangle(view.viewBox[1]), Rectangle(view'.viewBox[1]), f)]_vars

\* a <= b for two numbers that are not NaN.
RLe(a, b) == a.n * b.d <= b.n * a.d

\* C24: on an image without a viewBox a zoom still changes the view, through
\* the scale of the image's transform, and that scale stays between 0.1 and
\* 10.
C24_TransformFallback ==
    /\ [](view.loaded =>
            /\ RLe(Rat(1, 10), view.transform.scale)
            /\ RLe(view.transform.scale, Whole(10)))
    /\ [][(view.loaded /\ ~view.hasViewBox
             /\ view'.event \in {"zoomIn", "zoomOut", "wheel"})
          => view'.transform.scale # view.transform.scale]_vars

\* C25: a key press whose target is a field of the form (an INPUT or a
\* SELECT) changes neither the viewBox nor the settings panel, whatever the
\* key, except that Escape closes the panel.
C25_KeysLeaveFormAlone ==
    [][(view.loaded /\ view'.event = "keydown" /\ view'.field)
       => /\ view'.viewBox = view.viewBox
          /\ view'.panning = view.panning
          /\ IF view'.escape
               THEN ~view'.open /\ ~view'.visible
               ELSE view'.open = view.open /\ view'.visible = view.visible]_vars

\* A key other than Escape was pressed in a field of the form while the
\* settings panel was open over a zoomed image.
C25_Witness ==
    /\ view.loaded
    /\ view.event = "keydown"
    /\ view.field
    /\ ~view.escape
    /\ view.open
    /\ view.hasViewBox
    /\ view.moves > 0

\* The panels that exist: created and not disposed.
LivePanels == {p \in PanelIds : panels[p].state = "open"}

\* C26: there is one shared panel.  At most one panel exists, and it is the
\* one sharedPanel names; sharedPanel is defined exactly when currentUri is;
\* a step that finds a panel leaves it the shared panel or disposes it, and
\* creates no other one.
C26_SingleSharedPanel ==
    /\ [](/\ Cardinality(LivePanels) <= 1
          /\ LivePanels = (IF sharedPanel = 0 THEN {} ELSE {sharedPanel})
          /\ (sharedPanel = 0) <=> (currentUri = ""))
    /\ [][sharedPanel # 0 =>
            /\ sharedPanel' \in {sharedPanel, 0}
            /\ \A p \in PanelIds \ {sharedPanel} : panels'[p] = panels[p]]_vars

\* The preview of a second file has been opened while the panel of the first
\* was there: both renders are for the same panel, and no other panel was
\* created.
C26_Witness ==
    /\ sharedPanel = 1
    /\ \E r, q \in RenderIds :
          /\ renders[r].panel = 1 /\ renders[q].panel = 1
          /\ renders[r].uri # "" /\ renders[q].uri # ""
          /\ renders[r].uri # renders[q].uri
          /\ currentUri = renders[q].uri
    /\ panels[1].title = makeTitle(currentUri)
    /\ \A p \in PanelIds \ {1} : panels[p].state = "none"

\* C27: once no render is in flight, the document the shared panel shows was
\* rendered from the file currentUri names: the render that wrote the panel
\* last was a render of that file.
C27_ShownIsCurrent ==
    (/\ sharedPanel # 0
     /\ InFlight = {}
     /\ lastCompleted[sharedPanel] # 0)
    => renders[lastCompleted[sharedPanel]].uri = currentUri

\* C28: the options a displayed document embeds, the ones its settings form
\* shows, are the options from which the argument vector of the render that
\* produced the displayed SVG was built.
C28_EmbeddedOptionsAreRendered ==
    \A p \in PanelIds :
        (/\ panels[p].state = "open"
         /\ lastCompleted[p] # 0
         /\ panels[p].html.kind = "svg")
        => panels[p].html.optionsJson = renders[lastCompleted[p]].options

\* C29: every successful result of runSv2Svg, from the primary stdout, the
\* fallback stdout or the fallback output file, is a non-empty text that
\* begins with the opening tag <svg.
C29_SuccessIsSvg ==
    \A r \in Finished :
        (Ran(renders[r].primary) /\ renders[r].result.ok)
        => /\ renders[r].result.value # ""
           /\ MatchAt(renders[r].result.value, "<svg", 0)

\* C30: every render that starts finishes, the loading page set at its start
\* is replaced, and an open panel for which no render is in flight shows a
\* wrapped SVG or an error page, never the loading page.
C30_RendersFinish ==
    /\ \A r \in RenderIds : (r \in InFlight) ~> (r \in Finished)
    /\ \A p \in PanelIds :
          (panels[p].state = "open" /\ panels[p].html = loadingHtml)
             ~> (panels[p].state # "open" \/ panels[p].html # loadingHtml)
    /\ [](\A p \in PanelIds :
            (panels[p].state = "open" /\ OnPanel(p) # {} /\ RunningOn(p) = {})
            => panels[p].html.kind \in {"svg", "error"})

\* A render that made both tool runs has finished and its panel shows the
\* error page.
C30_Witness ==
    \E r \in Finished :
        /\ Ran(renders[r].fallback)
        /\ panels[renders[r].panel].state = "open"
        /\ lastCompleted[renders[r].panel] = r
        /\ panels[renders[r].panel].html.kind = "error"

=============================================================================
